---- MODULE Spec2Model ----
(***************************************************************************)
(* A model of the yieldable type checker of src/src/checker.c.             *)
(*                                                                         *)
(* Every check procedure is an operator that takes the checker context c   *)
(* (the AST store, the checker's globals, the diagnostic sink, the entity  *)
(* table) and returns the context after the call, with c.cs the returned   *)
(* CheckStatus and c.ret the node now stored in the slot the procedure was *)
(* handed (the C code takes AstX** and may overwrite *p).                  *)
(*                                                                         *)
(* c.tr is an observation log of the call: procedure returns, CHECK macro  *)
(* sites, YIELD macro sites, diagnostics, flag and type writes.  It is not *)
(* program state; the properties are stated over it.                       *)
(***************************************************************************)
EXTENDS Integers, Sequences, FiniteSets, TLC

VARIABLES
    ast,                    \* the AST arena: node id -> node
    ents,                   \* the entity table: entity id -> entity
    cycle_detected,         \* context.cycle_detected
    all_checks_are_final,   \* checker.c:114
    current_checking_level, \* checker.c:119
    expression_types_must_be_known, \* checker.c:113
    inside_for_iterator,    \* checker.c:115
    expected_return_type,   \* checker.c:130 (the node whose type slot it points at, 0 = NULL)
    builtin_range_type_type, \* the global assigned at checker.c:1395
    errs,                   \* number of diagnostics held by the sink
    init_procedures,        \* the global init_procedures array
    entity_heap,            \* entities handed to entity_heap_insert_existing / add_entities_for_node
    env,                    \* what the external collaborators answer right now
    checked,                \* the check_entity call just made: entity, entity before, status, turn
    stalled,                \* scheduler: entities checked without a state change since the last change
    trace,                  \* the observation log of the last check_entity call
    crashed,                \* a null node pointer was dereferenced
    scen                    \* which input program this behaviour runs

vars == <<ast, ents, cycle_detected, all_checks_are_final, current_checking_level,
          expression_types_must_be_known, inside_for_iterator, expected_return_type,
          builtin_range_type_type, errs, init_procedures, entity_heap, env, checked, stalled, trace, crashed,
          scen>>

-----------------------------------------------------------------------------
(* Bounds of the model                                                     *)

MaxAttempts == 3   \* macro_attempts is capped here (guards of the scheduler)
MaxErrs == 3       \* the scheduler stops handing out work at this many diagnostics
MaxNodes == 30     \* arena size the scenarios may grow to
MaxHeap == 4       \* entity_heap insertions recorded
MaxInit == 2       \* init_procedures entries recorded

-----------------------------------------------------------------------------
(* CheckStatus, checker.c:61-70.  The order is significant.                *)

Check_Success == 0
Check_Complete == 1
Check_Errors_Start == 2
Check_Return_To_Symres == 3
Check_Yield_Macro == 4
Check_Failed == 5
Check_Error == 6

STATEMENT_LEVEL == 1
EXPRESSION_LEVEL == 2

(* Entity states, in the order the checker compares them.                  *)
Entity_State_Resolve_Symbols == 5
Entity_State_Check_Types == 6
Entity_State_Code_Gen == 7
Entity_State_Finalized == 8
Entity_State_Failed == 9

-----------------------------------------------------------------------------
(* Types.  A Type is a tuple; NULLT is the null Type pointer.              *)

NULLT == <<>>
T_void == <<"Basic", "void">>
T_bool == <<"Basic", "bool">>
T_i32 == <<"Basic", "i32">>
T_f32 == <<"Basic", "f32">>
T_rawptr == <<"Basic", "rawptr">>
T_Type_Index == <<"Basic", "type_index">>
type_auto_return == <<"Basic", "auto_return">>
T_failure == <<"Failure">>      \* (Type *) &node_that_signals_failure
T_Pointer(t) == <<"Pointer", t>>
T_Array(t, n) == <<"Array", t, n>>
T_Struct(name) == <<"Struct", name>>
T_Slice(t) == <<"Slice", t>>
T_DynArray(t) == <<"DynArray", t>>
T_VarArgs(t) == <<"VarArgs", t>>
T_Iterator(t) == <<"Struct", "Iterator", t>>    \* Iterator(t), with poly_sln[0].type = t
T_Function(ret, nparams) == <<"Function", ret, nparams>>
T_Compound == <<"Compound">>
T_Enum(name) == <<"Enum", name>>

TKind(t) == IF t = NULLT THEN "Null" ELSE t[1]

type_is_bool(t) == t = T_bool
type_is_integer(t) == t = T_i32
type_is_numeric(t) == t \in {T_i32, T_f32}
type_is_pointer(t) == TKind(t) = "Pointer" \/ t = T_rawptr
type_is_rawptr(t) == t = T_rawptr
type_is_compound(t) == TKind(t) = "Compound"
type_is_structlike(t) ==
    \/ TKind(t) = "Struct"
    \/ (TKind(t) = "Pointer" /\ TKind(t[2]) = "Struct")
types_are_compatible(a, b) == a # NULLT /\ a = b
type_size_of(t) == IF t = T_void \/ t = NULLT THEN 0 ELSE 4

-----------------------------------------------------------------------------
(* AST nodes.  Every node carries every field; a field a kind does not     *)
(* have keeps its default.                                                 *)

NoNode == 0
GARBAGE == -1   \* an array element that was never written

Node0 ==
    [ kind |-> "Error", flags |-> {}, type |-> NULLT, type_node |-> NoNode,
      left |-> NoNode, right |-> NoNode, expr |-> NoNode, operation |-> "None",
      can_be_removed |-> FALSE, overload_args |-> <<>>, has_overload_args |-> FALSE,
      potential_substitute |-> NoNode, callee |-> NoNode, values |-> <<>>,
      body |-> <<>>, statement_idx |-> 0, bt |-> NULLT, value |-> 0,
      entity |-> 0, deps |-> <<>>, true_entities |-> <<>>, false_entities |-> <<>>,
      is_default |-> FALSE, cases |-> <<>>, has_cases |-> FALSE, default_case |-> NoNode,
      field |-> "", atnode |-> NoNode, cond |-> NoNode, code |-> NoNode,
      elem |-> NoNode, alias |-> NoNode,
      is_intrinsic |-> FALSE, has_constraints |-> FALSE, constraints_met |-> FALSE,
      next |-> NoNode, entity_header |-> 0, func_body |-> NoNode,
      generated_from |-> FALSE, code_expr |-> NoNode, stopped_at |-> -1,
      params |-> <<>>, return_type |-> NoNode, constraint_checks |-> <<"none">>,
      produce_errors |-> FALSE, constraints |-> <<>>, phase |-> "Cloning_Expressions",
      interface |-> NoNode, expr_idx |-> 0, inverted |-> {}, report_status |-> NoNode,
      init_proc |-> NoNode, poly_params |-> 0, slns |-> <<>>, known_slns |-> {},
      successful_symres |-> FALSE, error_on_fail |-> FALSE, function_header |-> NoNode,
      low |-> NoNode, high |-> NoNode, step |-> NoNode,
      block |-> NoNode, case_block |-> NoNode, yield_return_index |-> 0,
      switch_kind |-> "none", case_map |-> {}, min_case |-> 0, max_case |-> 0,
      case_exprs |-> <<>>,
      expected |-> <<>>, default_value |-> NoNode, vararg_kind |-> "Not_VA",
      members |-> <<>>, memarr |-> <<>>, sps |-> "extern", entity_defaults |-> 0,
      initial_value |-> NoNode, callsite_of |-> NoNode, filename |-> NoNode,
      line |-> NoNode, column |-> NoNode, scalings |-> 0, expected_at_entry |-> NoNode, expected_at_exit |-> NoNode,
      iter |-> NoNode, var |-> NoNode, stmt |-> NoNode, by_pointer |-> FALSE,
      no_close |-> FALSE, loop_type |-> "Invalid" ]

(* Bind([x \in {v} |-> e]) is e with x standing for the value v.           *)
Bind(f) == f[CHOOSE x \in DOMAIN f : TRUE]

Mk(o) == [f \in DOMAIN Node0 |-> IF f \in DOMAIN o THEN o[f] ELSE Node0[f]]

HasFlag(c, n, f) == f \in c.ast[n].flags


-----------------------------------------------------------------------------
(* The checker context and the observation log.                            *)

Ev(kind, p, n, cs, c) ==
    [ev |-> kind, p |-> p, n |-> n, cs |-> cs, d |-> c.depth, cd |-> c.cd]
Log(c, kind, p, n, cs) == [c EXCEPT !.tr = Append(@, Ev(kind, p, n, cs, c))]

(* A procedure is entered one level deeper and, when it returns, its status *)
(* is logged at its own depth.  A procedure that takes a slot (a pointer   *)
(* to a node pointer) reports in c.ret what the slot holds now; for one    *)
(* that takes a node the caller's pointer is unchanged.                    *)
Enter(c) == [c EXCEPT !.depth = @ + 1]
SlotProcedures ==
    { "check_unaryop", "check_field_access", "check_binaryop_compare",
      "check_binaryop_bool", "check_binaryop", "check_subscript", "check_address_of",
      "check_resolve_callee", "check_call", "check_insert_directive", "check_range_literal",
      "check_method_call",
      "check_statement", "check_expression" }
Exit(c, p, n) ==
    [c EXCEPT !.tr = Append(@, Ev("ret", p, n, c.cs, c)), !.depth = @ - 1,
              !.ret = IF p \in SlotProcedures THEN @ ELSE n]

Return(c, cs) == [c EXCEPT !.cs = cs]
ReturnSlot(c, cs, n) == [c EXCEPT !.cs = cs, !.ret = n]

(* The diagnostic sink (external): onyx_report_error, onyx_submit_error,   *)
(* onyx_clear_errors.                                                      *)
onyx_report_error(c) == [Log(c, "report", "onyx_report_error", 0, 0) EXCEPT !.errs = @ + 1]
onyx_submit_error(c) == [Log(c, "report", "onyx_submit_error", 0, 0) EXCEPT !.errs = @ + 1]
onyx_clear_errors(c) == [Log(c, "clear", "onyx_clear_errors", 0, 0) EXCEPT !.errs = 0]

(* The CHECK macro, checker.c:9-12: the status seen at the call site, and  *)
(* whether the macro returns it.                                           *)
SeenByCHECK(c) == [c EXCEPT !.tr = Append(@, Ev("CHECK", "", 0, c.cs, c))]
SeenSlot(c, n, f) ==
    [c EXCEPT !.ast[n][f] = c.ret, !.tr = Append(@, Ev("CHECK", "", 0, c.cs, c))]
SeenValue(c, n, i) ==
    [c EXCEPT !.ast[n].values[i] = c.ret, !.tr = Append(@, Ev("CHECK", "", 0, c.cs, c))]
(* A CHECK that lets Yield_Macro and Return_To_Symres pass.                 *)
Bails_on_failure_only(c) == c.cs >= Check_Failed
Bails(c) == c.cs > Check_Errors_Start

(* YIELD, YIELD_ and YIELD_ERROR, checker.c:14-39.                          *)
YIELD_cycle_blind(c) == Return(Log(c, "YIELD", "", 0, Check_Yield_Macro), Check_Yield_Macro)
YIELD(c) ==
    IF c.cd
    THEN Return(Log(onyx_report_error(c), "YIELD", "", 0, Check_Error), Check_Error)
    ELSE Return(Log(c, "YIELD", "", 0, Check_Yield_Macro), Check_Yield_Macro)

(* ERROR and ERROR_, checker.c:41-49.                                       *)
ERROR(c) == Return(onyx_report_error(c), Check_Error)
(* A dereference of a null node pointer: the process dies; the status only *)
(* unwinds the interpretation.                                             *)
Crash(c) == [c EXCEPT !.crash = TRUE, !.cs = Check_Error]

(* Node writes.                                                            *)
SetField(c, n, f, v) == [c EXCEPT !.ast[n][f] = v]
SetType(c, n, t) ==
    Log([c EXCEPT !.ast[n].type = t],
        "type", IF c.ast[n].type # NULLT /\ t = NULLT THEN "nulled" ELSE "set",
        n, IF c.ast[n].type # NULLT THEN 1 ELSE 0)
AddFlag(c, n, f) ==
    Log([c EXCEPT !.ast[n].flags = @ \cup {f}],
        "flag", f, n, IF c.acf THEN 1 ELSE 0)
SetValue(c, n, i, v) == [c EXCEPT !.ast[n].values[i] = v]
SetBody(c, n, i, v) == [c EXCEPT !.ast[n].body[i] = v]

(* ast_alloc: a new node at the end of the arena.                          *)
NewId(c) == Len(c.ast) + 1
Alloc(c, node) == [c EXCEPT !.ast = Append(@, node)]

-----------------------------------------------------------------------------
(* External collaborators (type engine, symbol engine).                    *)

(* type_build_from_ast: the Type of a type AST, or NULL while it cannot be *)
(* constructed yet.  env.built holds the type ASTs that can be built.      *)
type_build_from_ast(c, tn) ==
    IF tn = NoNode THEN NULLT
    ELSE IF tn \in c.env.built THEN c.ast[tn].bt ELSE NULLT

node_is_type(c, n) == c.ast[n].kind \in {"Basic_Type", "Pointer_Type", "Typeof", "Struct_Type"}

(* resolve_expression_type: builds the type of a still untyped node from   *)
(* its type AST.                                                           *)
resolve_expression_type(c, n) ==
    IF n # NoNode /\ ~node_is_type(c, n) /\ c.ast[n].type = NULLT
         /\ type_build_from_ast(c, c.ast[n].type_node) # NULLT
    THEN SetType(c, n, type_build_from_ast(c, c.ast[n].type_node))
    ELSE c

(* unify_node_and_type                                                     *)
unify_node_and_type(c, n, t) ==
    IF c.ast[n].type = NULLT \/ t = NULLT THEN "YIELD"
    ELSE IF types_are_compatible(c.ast[n].type, t) THEN "SUCCESS"
    ELSE "FAILED"


type_make_pointer(t) == T_Pointer(t)
type_make_array(t, count) ==
    IF t = NULLT THEN NULLT ELSE IF t = T_failure THEN t ELSE T_Array(t, count)

(* cast_is_legal                                                           *)
cast_is_legal(from, to) ==
    /\ from # NULLT
    /\ \/ from = to
       \/ (type_is_numeric(from) /\ type_is_numeric(to))
       \/ (type_is_pointer(from) /\ type_is_pointer(to))

(* The struct types of the input programs: S { x: i32; use p: ^V } and    *)
(* V { u: i32 }, so that S.u is reached through the pointer member p.      *)
StructMembers ==
    [ S |-> [ x |-> [type |-> T_i32, idx |-> 0, use_through_pointer_index |-> -1],
              p |-> [type |-> T_Pointer(T_Struct("V")), idx |-> 1, use_through_pointer_index |-> -1],
              u |-> [type |-> T_i32, idx |-> 0, use_through_pointer_index |-> 1] ],
      V |-> [ u |-> [type |-> T_i32, idx |-> 0, use_through_pointer_index |-> -1] ],
      range |-> [ low  |-> [type |-> T_i32, idx |-> 0, use_through_pointer_index |-> -1],
                  high |-> [type |-> T_i32, idx |-> 1, use_through_pointer_index |-> -1],
                  step |-> [type |-> T_i32, idx |-> 2, use_through_pointer_index |-> -1] ] ]

StructOf(t) == IF TKind(t) = "Struct" THEN t[2] ELSE t[2][2]
type_lookup_member_found(t, f) == f \in DOMAIN StructMembers[StructOf(t)]
type_lookup_member(t, f) == StructMembers[StructOf(t)][f]
type_lookup_member_by_idx(t, i) ==
    Bind([ms \in {StructMembers[StructOf(t)]} |->
        ms[CHOOSE f \in DOMAIN ms : ms[f].idx = i /\ ms[f].use_through_pointer_index = -1]])
try_symbol_raw_resolve_from_type(t, f) == NoNode

(* Type.Struct.status (checker.c:1668, 2293).  The status of a struct type *)
(* that a Struct_Type node of the program builds is kept with that node    *)
(* (sps); the status of any other struct type is the environment's.        *)
struct_status(c, t) ==
    Bind([ns \in {{ n \in DOMAIN c.ast : /\ c.ast[n].kind = "Struct_Type"
                                         /\ c.ast[n].sps # "extern"
                                         /\ c.ast[n].bt = T_Struct(StructOf(t)) }} |->
    IF ns # {} THEN c.ast[CHOOSE n \in ns : TRUE].sps
    ELSE IF StructOf(t) \in c.env.uses_done THEN "Uses_Done" ELSE "Start"])

node_is_addressable_literal(c, n) == c.ast[n].kind \in {"Struct_Literal", "Array_Literal"}

LvalKinds == {"Subscript", "Dereference", "Field_Access", "Memres", "Local", "Constraint_Sentinel"}

(* Entity state of the entity a node belongs to (node->entity->state).     *)
HasEntity(c, n) == c.ast[n].entity # 0
EntityState(c, n) == c.ents[c.ast[n].entity].state

-----------------------------------------------------------------------------
(* The check procedures.  A procedure calls another one through Call,      *)
(* which is defined after all of them.                                     *)

RECURSIVE Call(_, _, _)


(* CHECK(expression, &n->f) and CHECK(type, &n->f): the callee may         *)
(* overwrite the slot, then the macro looks at the status.                 *)
CHECK_expression(c, n, f) == SeenSlot(Call("check_expression", c, c.ast[n][f]), n, f)
CHECK_type(c, n, f) == SeenSlot(Call("check_type", c, c.ast[n][f]), n, f)
CHECK_expression_value(c, n, i) ==
    SeenValue(Call("check_expression", c, c.ast[n].values[i]), n, i)

(* checker.c:121-127.  The status of check_type is looked at, not returned. *)
fill_in_type_unguarded(c, n) ==
    Bind([r \in {Call("check_type", c, c.ast[n].type_node)} |->
        Bind([c1 \in {SetField(r, n, "type_node", r.ret)} |->
        IF Bails(c1) THEN c1
        ELSE SetType(c1, n, type_build_from_ast(c1, c1.ast[n].type_node))])])
fill_in_type(c, n) ==
    IF c.ast[n].type = NULLT
    THEN Bind([r \in {Call("check_type", c, c.ast[n].type_node)} |->
             Bind([c1 \in {SetField(r, n, "type_node", r.ret)} |->
             IF Bails(c1) THEN c1
             ELSE SetType(c1, n, type_build_from_ast(c1, c1.ast[n].type_node))])])
    ELSE c

(* checker.c:2514-2608, for the type ASTs the input programs hold.         *)
check_type(c0, n) ==
    IF n = NoNode THEN ReturnSlot(c0, Check_Success, n)
    ELSE
    LET done(cx) == Return(AddFlag(AddFlag(cx, n, "Comptime"), n, "Has_Been_Checked"),
                           Check_Success) IN
    IF HasFlag(c0, n, "Has_Been_Checked") THEN Return(c0, Check_Success)
        ELSE IF c0.ast[n].kind = "Typeof" THEN
            Bind([c1 \in {CHECK_expression(c0, n, "expr")} |->
            IF Bails(c1) THEN c1 ELSE
            Bind([c2 \in {resolve_expression_type(c1, c1.ast[n].expr)} |->
            IF c2.ast[c2.ast[n].expr].type = NULLT THEN YIELD(c2)
            ELSE done(SetField(c2, n, "bt", c2.ast[c2.ast[n].expr].type))])])
        ELSE IF c0.ast[n].kind = "Pointer_Type" THEN
            Bind([ca \in {[c0 EXCEPT !.ast[c0.ast[n].elem].flags =
                               @ \cup (c0.ast[n].flags \cap {"Header_Check_No_Error"})]} |->
            Bind([c1 \in {CHECK_type(ca, n, "elem")} |->
            IF Bails(c1) THEN c1 ELSE done(c1)])])
        ELSE done(c0)


RECURSIVE strip_aliases(_, _)
strip_aliases(c, n) ==
    IF n # NoNode /\ c.ast[n].kind = "Alias" THEN strip_aliases(c, c.ast[n].alias) ELSE n

(* ast_reduce: the constant-folded literal that replaces a comptime node.  *)
ast_reduce(c, n) ==
    Alloc(c, Mk([kind |-> "NumLit", type |-> c.ast[n].type, flags |-> {"Comptime"}]))

(* checker.c:1177-1222 *)
check_unaryop(c0, n) ==
    Bind([c1 \in {CHECK_expression(c0, n, "expr")} |->
        IF Bails(c1) THEN [c1 EXCEPT !.ret = n] ELSE
        Bind([c2 \in {IF c0.ast[n].operation # "Negate" THEN resolve_expression_type(c1, c1.ast[n].expr) ELSE c1} |->
        \* 1186-1197
        IF c0.ast[n].operation = "Cast" /\ c2.ast[n].type = NULLT THEN [YIELD(c2) EXCEPT !.ret = n]
        ELSE IF c0.ast[n].operation = "Cast" /\ ~cast_is_legal(c2.ast[c1.ast[n].expr].type, c2.ast[n].type)
        THEN [ERROR(c2) EXCEPT !.ret = n] ELSE
        Bind([c3 \in {IF c0.ast[n].operation = "Cast" THEN c2 ELSE SetType(c2, n, c2.ast[c1.ast[n].expr].type)} |->
        IF c0.ast[n].operation = "Not" /\ ~type_is_bool(c2.ast[c1.ast[n].expr].type) THEN [ERROR(c3) EXCEPT !.ret = n]
        ELSE IF c0.ast[n].operation = "Bitwise_Not" /\ ~type_is_integer(c2.ast[c1.ast[n].expr].type) THEN [ERROR(c3) EXCEPT !.ret = n]
        \* 1213-1219
        ELSE IF "Comptime" \in c3.ast[c1.ast[n].expr].flags
        THEN Bind([ca \in {AddFlag(c3, n, "Comptime")} |->
             ReturnSlot(ast_reduce(ca, n), Check_Success, NewId(ca))])
        ELSE ReturnSlot(c3, Check_Success, n)])])])

(* checker.c:1366-1383, the loop over al->values from index i on.          *)
RECURSIVE check_array_literal_values(_, _, _)
check_array_literal_values(c, n, i) ==
    IF i > Len(c.ast[n].values) THEN Return(c, Check_Success)
    ELSE
    Bind([elem_type \in {c.ast[n].type[2]} |->
    Bind([c1 \in {CHECK_expression_value(c, n, i)} |->
    IF Bails(c1) THEN c1 ELSE
    Bind([e \in {c1.ast[n].values[i]} |->
    Bind([c2 \in {IF "Comptime" \in c1.ast[e].flags THEN c1
                  ELSE [c1 EXCEPT !.ast[n].flags = @ \ {"Comptime"}]} |->
    IF c1.ast[e].type = NULLT /\ HasEntity(c1, e)
       /\ EntityState(c1, e) <= Entity_State_Check_Types THEN YIELD(c1) ELSE
    Bind([tc \in {unify_node_and_type(c2, e, elem_type)} |->
    IF tc = "YIELD" THEN YIELD(c2)
    ELSE IF tc = "FAILED" THEN ERROR(c2)
    ELSE check_array_literal_values(c2, n, i + 1)])])])])])

(* checker.c:1336-1386 *)
check_array_literal(c0, n) ==
    LET rest(cx) ==
            IF cx.ast[n].type[3] # Len(cx.ast[n].values) THEN ERROR(cx)
            ELSE check_array_literal_values(AddFlag(cx, n, "Comptime"), n, 1) IN
    IF HasFlag(c0, n, "Array_Literal_Typed") THEN rest(c0)
        ELSE IF c0.ast[n].atnode = NoNode THEN Return(c0, Check_Success)
        ELSE
        Bind([c1 \in {CHECK_expression(c0, n, "atnode")} |->
        IF Bails(c1) THEN c1
        ELSE IF ~node_is_type(c1, c1.ast[n].atnode) THEN ERROR(c1) ELSE
        Bind([c2 \in {SetType(c1, n, type_build_from_ast(c1, c1.ast[n].atnode))} |->
        IF c2.ast[n].type = NULLT THEN YIELD(c2) ELSE
        Bind([c3 \in {SetType(c2, n, type_make_array(c2.ast[n].type,
                                                     Len(c2.ast[n].values)))} |->
        IF c3.ast[n].type = NULLT \/ TKind(c3.ast[n].type) # "Array" THEN ERROR(c3)
        ELSE rest(AddFlag(c3, n, "Array_Literal_Typed"))])])])

(* checker.c:1548-1560 *)
check_dereference(c0, n) ==
    Bind([c1 \in {CHECK_expression(c0, n, "expr")} |->
    IF Bails(c1) THEN c1 ELSE
        Bind([et \in {c1.ast[c1.ast[n].expr].type} |->
        IF ~type_is_pointer(et) THEN ERROR(c1)
        ELSE IF et = T_rawptr THEN ERROR(c1)
        ELSE Return(SetType(c1, n, et[2]), Check_Success)])])


make_int_literal(c, v) ==
    Alloc(c, Mk([kind |-> "NumLit", type |-> T_i32, value |-> v, flags |-> {"Comptime"}]))

(* checker.c:1639-1722 *)
check_field_access(c0, n) ==
    IF HasFlag(c0, n, "Has_Been_Checked") THEN ReturnSlot(c0, Check_Success, n) ELSE
        Bind([c1 \in {CHECK_expression(c0, n, "expr")} |->
        IF Bails(c1) THEN [c1 EXCEPT !.ret = n] ELSE
        Bind([e1 \in {c1.ast[n].expr} |->
        Bind([et \in {c1.ast[e1].type} |->
        IF et = NULLT THEN [YIELD(c1) EXCEPT !.ret = n]
        ELSE IF ~type_is_structlike(et) THEN [ERROR(c1) EXCEPT !.ret = n] ELSE
        \* 1656-1659: the access goes through a dereference directly
        Bind([c2 \in {IF c1.ast[e1].kind = "Dereference"
                      THEN SetField(c1, n, "expr", c1.ast[e1].expr) ELSE c1} |->
        Bind([e2 \in {c2.ast[n].expr} |->
        Bind([t2 \in {c2.ast[e2].type} |->
        Bind([f \in {c2.ast[n].field} |->
        IF TKind(t2) = "Struct" /\ struct_status(c2, t2) # "Uses_Done"
        THEN [YIELD(c2) EXCEPT !.ret = n]
        ELSE IF ~type_lookup_member_found(t2, f) THEN
             IF TKind(t2) = "Array" /\ f = "count"
             THEN ReturnSlot(make_int_literal(c2, t2[3]), Check_Success, NewId(c2))
             ELSE IF try_symbol_raw_resolve_from_type(t2, f) # NoNode
             THEN ReturnSlot(c2, Check_Success, try_symbol_raw_resolve_from_type(t2, f))
             ELSE [ERROR(c2) EXCEPT !.ret = n]
        ELSE
        Bind([smem \in {type_lookup_member(t2, f)} |->
        \* 1701-1712: the intermediate access is born with Has_Been_Checked.
        Bind([c3 \in {IF smem.use_through_pointer_index >= 0
              THEN Bind([new_access \in {NewId(c2)} |->
                   Bind([containing_member \in
                            {type_lookup_member_by_idx(t2, smem.use_through_pointer_index)} |->
                   Bind([ca \in {Alloc(c2, Mk([kind |-> "Field_Access",
                                               type |-> containing_member.type,
                                               expr |-> e2, flags |-> {}]))} |->
                   SetField(AddFlag(ca, new_access, "Has_Been_Checked"),
                            n, "expr", new_access)])])])
              ELSE c2} |->
        ReturnSlot(AddFlag(SetType(c3, n, smem.type), n, "Has_Been_Checked"),
                   Check_Success, n)])])])])])])])])])

(* checker.c:1504-1545: check_address_of past the Ptr_Subscript attempt.   *)
check_address_of_operand(c0, n) ==
    Bind([c1 \in {CHECK_expression(c0, n, "expr")} |->
    IF Bails(c1) THEN [c1 EXCEPT !.ret = n] ELSE
    Bind([e1 \in {c1.ast[n].expr} |->
    Bind([c2 \in {IF node_is_addressable_literal(c1, e1)
                  THEN resolve_expression_type(c1, e1) ELSE c1} |->
    IF c2.ast[e1].type = NULLT THEN [YIELD(c2) EXCEPT !.ret = n] ELSE
    Bind([expr \in {strip_aliases(c2, e1)} |->
    IF node_is_type(c2, expr)
    THEN \* 1516-1524: the address of a type is the pointer type
         Bind([pt \in {NewId(c2)} |->
         Bind([c3 \in {Alloc(c2, Mk([kind |-> "Pointer_Type", elem |-> expr]))} |->
         Bind([c4 \in {SeenByCHECK(Call("check_type", c3, pt))} |->
         IF Bails(c4) THEN [c4 EXCEPT !.ret = pt]
         ELSE ReturnSlot(c4, Check_Success, pt)])])])
    ELSE IF \/ (c2.ast[expr].kind \notin LvalKinds
                  /\ ~node_is_addressable_literal(c2, expr))
            \/ "Cannot_Take_Addr" \in c2.ast[expr].flags
    THEN IF c2.ast[n].can_be_removed
         THEN ReturnSlot(c2, Check_Yield_Macro, e1)
         ELSE [ERROR(c2) EXCEPT !.ret = n]
    ELSE ReturnSlot(SetType([c2 EXCEPT !.ast[expr].flags = @ \cup {"Address_Taken"}],
                            n, type_make_pointer(c2.ast[expr].type)),
                    Check_Success, n)])])])])

(* The yield sentinel (&node_that_signals_a_yield) of overload lookup.     *)
node_that_signals_a_yield == -2

AssignOps == {"Assign", "Assign_Add", "Assign_Minus", "Assign_Multiply"}
binop_is_assignment(op) == op \in AssignOps
binop_is_compare(op) ==
    op \in {"Equal", "Not_Equal", "Less", "Less_Equal", "Greater", "Greater_Equal"}

make_argument(c, v) ==
    Alloc(c, Mk([kind |-> "Argument", value |-> v,
                 type |-> IF v > 0 THEN c.ast[v].type ELSE NULLT]))
make_binary_op(c, op, l, r) ==
    Alloc(c, Mk([kind |-> "Binary_Op", operation |-> op, left |-> l, right |-> r]))
make_address_of(c, e) == Alloc(c, Mk([kind |-> "Address_Of", expr |-> e]))

SetOverloadArg(c, b, i, v) == [c EXCEPT !.ast[b].overload_args[i] = v]

(* find_matching_overload_by_arguments against operator_overloads[op]:    *)
(* no match (NULL), not decidable yet (the sentinel), or the overload.     *)
find_matching_overload_by_arguments(c, op) ==
    CASE c.env.ovl[op] = "match" -> c.env.ovl_fn
      [] c.env.ovl[op] = "yield" -> node_that_signals_a_yield
      [] OTHER -> NoNode

(* checker.c:630, 1045: current_checking_level_store.                      *)
store_checking_level(c, p, n) == Log(c, "store", p, n, c.lvl)

(* Operands or arguments checked, and the level left as they set it.       *)
keep_checking_level(c, store, p, n) == Log(c, "level", p, n, c.lvl)

(* checker.c:633, 1048: current_checking_level =                           *)
(* current_checking_level_store.                                           *)
restore_checking_level(c, store, p, n) ==
    Log([c EXCEPT !.lvl = store], "level", p, n, store)

(* What find_matching_overload_by_arguments is handed at checker.c:780:    *)
(* every entry of binop->overload_args->values is an Argument node, or     *)
(* some entry of the array was never written.                              *)
overload_args_unwritten(c, b) ==
    \E i \in DOMAIN c.ast[b].overload_args : c.ast[b].overload_args[i] = GARBAGE
overload_args_complete(c, b) ==
    \A i \in DOMAIN c.ast[b].overload_args :
        /\ c.ast[b].overload_args[i] > NoNode
        /\ c.ast[c.ast[b].overload_args[i]].kind = "Argument"

(* checker.c:748-790.  The result (NULL, the sentinel or the new call) is  *)
(* left in c.ret.                                                          *)
binaryop_try_operator_overload(c, b, third_argument) ==
    Bind([op \in {c.ast[b].operation} |->
    IF c.env.ovl[op] = "none" THEN [c EXCEPT !.ret = NoNode] ELSE
    LET \* 780-789.  The picker reads every entry of the tuple; an entry that
        \* was never written is an indeterminate pointer, and reading through
        \* it either faults or goes on with whatever the picker answers.
        lookup(cF) ==
            Bind([cG \in {Log(cF, "lookup", op, b,
                              IF overload_args_complete(cF, b) THEN 1 ELSE 0)} |->
            IF overload_args_unwritten(cG, b) /\ cG.env.uninit = "fault"
            THEN [Crash(cG) EXCEPT !.ret = NoNode] ELSE
            Bind([overload \in {find_matching_overload_by_arguments(cG, op)} |->
            IF overload = NoNode \/ overload = node_that_signals_a_yield
            THEN [cG EXCEPT !.ret = overload]
            ELSE [Alloc(cG, Mk([kind |-> "Call", callee |-> overload,
                                values |-> cG.ast[b].overload_args]))
                  EXCEPT !.ret = NewId(cG)]])])
        \* 776-777
        others(cD) ==
            Bind([cE \in {SetOverloadArg(make_argument(cD, cD.ast[b].right),
                                        b, 2, NewId(cD))} |->
            IF third_argument # NoNode
            THEN SetOverloadArg(make_argument(cE, third_argument), b, 3, NewId(cE))
            ELSE cE])
    IN
    IF c.ast[b].has_overload_args THEN lookup(c) ELSE
    \* 752-754: the array is sized, its elements are not written yet.
    Bind([nargs \in {IF third_argument # NoNode THEN 3 ELSE 2} |->
    Bind([cA \in {[c EXCEPT !.ast[b].has_overload_args = TRUE,
                            !.ast[b].overload_args = [i \in 1..nargs |-> GARBAGE]]} |->
    IF binop_is_assignment(op) THEN
        \* 757-764: the speculative address-of probe.
        Bind([aof \in {NewId(cA)} |->
        Bind([cB \in {SetOverloadArg(make_address_of(cA, cA.ast[b].left), b, 1, aof)} |->
        Bind([pr \in {Call("check_address_of", [cB EXCEPT !.acf = FALSE], aof)} |->
        Bind([cC \in {[SetOverloadArg(pr, b, 1, pr.ret)
                       EXCEPT !.lvl = cB.lvl, !.acf = cB.acf]} |->
        IF pr.cs = Check_Yield_Macro THEN [cC EXCEPT !.ret = node_that_signals_a_yield]
        ELSE IF pr.cs = Check_Error THEN [cC EXCEPT !.ret = NoNode]
        ELSE lookup(others(SetOverloadArg(make_argument(cC, cC.ast[b].overload_args[1]),
                                          b, 1, NewId(cC))))])])])])
    ELSE lookup(others(SetOverloadArg(make_argument(cA, cA.ast[b].left),
                                      b, 1, NewId(cA))))])])])


(* checker.c:741-746 *)
report_bad_binaryop(c) == onyx_report_error(c)

(* checker.c:894-947 *)
binop_allowed(op) ==
    CASE op \in {"Add", "Minus"} -> {"Numeric", "Pointer"}
      [] op \in {"Multiply", "Divide"} -> {"Numeric"}
      [] op = "Modulus" -> {"Integer"}
      [] op \in {"Equal", "Not_Equal"} -> {"Equality"}
      [] op \in {"Less", "Less_Equal", "Greater", "Greater_Equal"} -> {"Ordered"}
      [] op \in {"And", "Or", "Xor", "Shl", "Shr", "Sar"} -> {"Integer"}
      [] op \in {"Bool_And", "Bool_Or"} -> {"Boolean"}
      [] OTHER -> {}
BasicFlags(t) ==
    CASE t = T_i32 -> {"Integer", "Numeric", "Ordered", "Equality"}
      [] t = T_f32 -> {"Float", "Numeric", "Ordered", "Equality"}
      [] t = T_bool -> {"Boolean", "Equality"}
      [] t = T_rawptr -> {"Pointer", "Equality"}
      [] t = T_Type_Index -> {"Type_Index", "Equality"}
      [] OTHER -> {}
binary_op_allows_basic_only(op, t) ==
    TKind(t) = "Basic" /\ binop_allowed(op) \cap BasicFlags(t) # {}
binary_op_is_allowed(op, t) ==
    Bind([effective_flags \in {CASE TKind(t) = "Basic" -> BasicFlags(t)
              [] TKind(t) = "Pointer" -> {"Pointer"}
              [] TKind(t) = "Enum" -> {"Integer"}
              [] TKind(t) = "Function" -> {"Equality"}
              [] OTHER -> {}} |->
        binop_allowed(op) \cap effective_flags # {}])

node_is_auto_cast(c, n) == c.ast[n].kind = "Unary_Op" /\ c.ast[n].operation = "Auto_Cast"

(* The nested TYPE_CHECK(&left, rtype) { TYPE_CHECK(&right, ltype) { ... } } *)
(* "OK", "YIELD" or "FAILED".                                              *)
TYPE_CHECK_both(c, l, rtype, r, ltype) ==
    Bind([t1 \in {unify_node_and_type(c, l, rtype)} |->
    IF t1 = "YIELD" THEN "YIELD"
    ELSE IF t1 = "SUCCESS" THEN "OK" ELSE
    Bind([t2 \in {unify_node_and_type(c, r, ltype)} |->
    IF t2 = "YIELD" THEN "YIELD"
    ELSE IF t2 = "SUCCESS" THEN "OK"
    ELSE "FAILED"])])

(* checker.c:949-990 *)
check_binaryop_compare(c0, n) ==
    Bind([l \in {c0.ast[n].left} |->
    Bind([r \in {c0.ast[n].right} |->
    Bind([lt0 \in {c0.ast[l].type} |->
    Bind([rt0 \in {c0.ast[r].type} |->
    IF lt0 = NULLT THEN [YIELD(c0) EXCEPT !.ret = n]
        ELSE IF rt0 = NULLT THEN [YIELD(c0) EXCEPT !.ret = n] ELSE
        Bind([ltype \in {IF TKind(lt0) = "Pointer" THEN T_rawptr ELSE lt0} |->
        Bind([rtype \in {IF TKind(rt0) = "Pointer" THEN T_rawptr ELSE rt0} |->
        Bind([tc \in {IF types_are_compatible(ltype, rtype) THEN "OK"
                      ELSE IF node_is_auto_cast(c0, l) /\ node_is_auto_cast(c0, r)
                      THEN "FAILED"
                      ELSE TYPE_CHECK_both(c0, l, rtype, r, ltype)} |->
        IF tc = "YIELD" THEN [YIELD(c0) EXCEPT !.ret = n]
        ELSE IF tc = "FAILED" THEN [ERROR(c0) EXCEPT !.ret = n]
        ELSE IF ~binary_op_is_allowed(c0.ast[n].operation, lt0)
        THEN ReturnSlot(report_bad_binaryop(c0), Check_Error, n) ELSE
        Bind([c1 \in {SetType(c0, n, T_bool)} |->
        IF "Comptime" \in c1.ast[n].flags
        THEN ReturnSlot(ast_reduce(c1, n), Check_Success, NewId(c1))
        ELSE ReturnSlot(c1, Check_Success, n)])])])])])])])])

(* checker.c:992-1007 *)
check_binaryop_bool(c0, n) ==
    Bind([l \in {c0.ast[n].left} |->
    Bind([r \in {c0.ast[n].right} |->
    IF ~type_is_bool(c0.ast[l].type) \/ ~type_is_bool(c0.ast[r].type)
        THEN ReturnSlot(report_bad_binaryop(c0), Check_Error, n) ELSE
        Bind([c1 \in {SetType(c0, n, T_bool)} |->
        IF "Comptime" \in c1.ast[n].flags
        THEN ReturnSlot(ast_reduce(c1, n), Check_Success, NewId(c1))
        ELSE ReturnSlot(c1, Check_Success, n)])])])

is_lval(c, n) ==
    c.ast[n].kind \in {"Local", "Param", "Global", "Memres", "Dereference",
                       "Subscript", "Field_Access"}

AssignBase(op) ==
    CASE op = "Assign_Add" -> "Add"
      [] op = "Assign_Minus" -> "Minus"
      [] op = "Assign_Multiply" -> "Multiply"
      [] OTHER -> "None"

(* checker.c:793-892 *)
check_binaryop_assignment(c0, n) ==
    Bind([l \in {c0.ast[n].left} |->
    Bind([r0 \in {c0.ast[n].right} |->
    IF c0.lvl = EXPRESSION_LEVEL THEN ERROR(c0)
        ELSE IF ~is_lval(c0, l) THEN ERROR(c0)
        ELSE IF "Const" \in c0.ast[l].flags /\ c0.ast[l].type # NULLT THEN ERROR(c0) ELSE
        Bind([mid \in {
            IF c0.ast[n].operation = "Assign" THEN
                \* 807-842: raw assignment, type inference of the left side
                IF c0.ast[l].type # NULLT THEN Return(c0, Check_Success)
                ELSE IF c0.ast[l].type_node # NoNode /\ HasEntity(c0, l)
                        /\ EntityState(c0, l) <= Entity_State_Check_Types
                THEN YIELD(c0) ELSE
                Bind([cr1 \in {resolve_expression_type(c0, r0)} |->
                Bind([right_type \in {cr1.ast[r0].type} |->
                IF right_type = NULLT
                THEN IF ~HasEntity(cr1, r0)
                        \/ EntityState(cr1, r0) > Entity_State_Check_Types
                     THEN ERROR(cr1) ELSE YIELD(cr1)
                ELSE IF type_is_compound(right_type) THEN ERROR(cr1)
                ELSE Return(SetType(cr1, l, right_type), Check_Success)])])
            ELSE
                \* 844-867: +=, -=, ... become  left = left op right
                Bind([new_right \in {NewId(c0)} |->
                Bind([cm1 \in {make_binary_op(c0, AssignBase(c0.ast[n].operation), l, r0)} |->
                Bind([cm2 \in {SetField(SetField(cm1, n, "right", new_right),
                                        n, "operation", "Assign")} |->
                Bind([k \in {Call("check_binaryop", cm2, new_right)} |->
                Bind([cm3 \in {SeenByCHECK(SetField(k, n, "right", k.ret))} |->
                IF Bails(cm3) THEN cm3 ELSE Return(cm3, Check_Success)])])])])])} |->
        IF Bails(mid) THEN mid ELSE
        \* 869-885
        Bind([r1 \in {mid.ast[n].right} |->
        IF mid.ast[r1].type = NULLT /\ HasEntity(mid, r1)
           /\ EntityState(mid, r1) <= Entity_State_Check_Types
        THEN YIELD(mid) ELSE
        Bind([tc \in {unify_node_and_type(mid, r1, mid.ast[l].type)} |->
        IF tc = "YIELD" THEN YIELD(mid)
        ELSE IF tc = "FAILED" THEN ERROR(mid)
        ELSE Return(SetType(mid, n, T_void), Check_Success)])])])])])


(* CHECK(call, pslot) on a slot that already holds the implicit call.       *)
CHECK_call_in_slot(c, call) ==
    Bind([k \in {Call("check_call", c, call)} |->
    Bind([k1 \in {SeenByCHECK(k)} |->
    IF Bails(k1) THEN [k1 EXCEPT !.ret = k.ret]
    ELSE ReturnSlot(k1, Check_Success, k.ret)])])

(* checker.c:1160: the check of the binary operation is final.             *)
binaryop_never_final(c) == FALSE
binaryop_is_final(c) == c.acf

(* Ghost: the number of times the right operand of n has been scaled       *)
(* (checker.c:1127).                                                       *)
count_scaling(c, n) == SetField(c, n, "scalings", c.ast[n].scalings + 1)

(* An arithmetic check without the scaling of pointer arithmetic.         *)
check_binaryop_arith_unscaled(c, n) ==
    Bind([op \in {c.ast[n].operation} |->
    Bind([l \in {c.ast[n].left} |->
    Bind([r \in {c.ast[n].right} |->
    Bind([lt \in {c.ast[l].type} |->
    Bind([rt \in {c.ast[r].type} |->
    LET bad(cx) == ReturnSlot(report_bad_binaryop(cx), Check_Error, n) IN
    IF type_is_compound(lt) THEN bad(c)
    ELSE IF ~type_is_numeric(rt) THEN bad(c)
    ELSE IF type_is_rawptr(lt) THEN [ERROR(c) EXCEPT !.ret = n]
    ELSE
    \* 1114-1132: basic pointer math
    Bind([c1 \in {
        IF TRUE THEN Return(c, Check_Success)
        ELSE IF op \notin {"Add", "Minus"} THEN bad(c) ELSE
        Bind([cp0 \in {resolve_expression_type(c, r)} |->
        IF ~type_is_integer(cp0.ast[r].type) THEN bad(cp0) ELSE
        Bind([numlit \in {NewId(cp0)} |->
        Bind([cp1 \in {[make_int_literal(cp0, type_size_of(lt[2])) EXCEPT
                            !.ast[numlit].type = cp0.ast[r].type]} |->
        Bind([binop_node \in {NewId(cp1)} |->
        Bind([cp2 \in {make_binary_op(cp1, "Multiply", r, numlit)} |->
        Bind([cp3 \in {SeenByCHECK(Call("check_binaryop", cp2, binop_node))} |->
        IF Bails(cp3) THEN [cp3 EXCEPT !.ret = n]
        ELSE Return(SetType(SetType(SetField(count_scaling(cp3, n), n, "right", cp3.ret),
                                    n, lt),
                            cp3.ret, lt), Check_Success)])])])])])])} |->
    IF Bails(c1) THEN c1 ELSE
    \* 1136-1153
    Bind([l1 \in {c1.ast[n].left} |->
    Bind([r1 \in {c1.ast[n].right} |->
    Bind([tc \in {IF types_are_compatible(c1.ast[l1].type, c1.ast[r1].type) THEN "OK"
                  ELSE IF node_is_auto_cast(c1, l1) /\ node_is_auto_cast(c1, r1)
                  THEN "FAILED"
                  ELSE TYPE_CHECK_both(c1, l1, c1.ast[r1].type, r1, c1.ast[l1].type)} |->
    IF tc = "YIELD" THEN [YIELD(c1) EXCEPT !.ret = n]
    ELSE IF tc = "FAILED" THEN [ERROR(c1) EXCEPT !.ret = n] ELSE
    Bind([c2 \in {SetType(c1, n, c1.ast[l1].type)} |->
    IF ~binary_op_is_allowed(op, c2.ast[n].type) THEN bad(c2)
    \* 1160-1167
    ELSE IF binaryop_is_final(c2)
    THEN Bind([c3 \in {AddFlag(c2, n, "Has_Been_Checked")} |->
         IF "Comptime" \in c3.ast[n].flags
         THEN ReturnSlot(ast_reduce(c3, n), Check_Success, NewId(c3))
         ELSE ReturnSlot(c3, Check_Success, n)])
    ELSE ReturnSlot(c2, Check_Success, n)])])])])])])])])])])

(* checker.c:1092-1174: check_binaryop once operator overloading is past.  *)
check_binaryop_arith(c, n) ==
    Bind([op \in {c.ast[n].operation} |->
    Bind([l \in {c.ast[n].left} |->
    Bind([r \in {c.ast[n].right} |->
    Bind([lt \in {c.ast[l].type} |->
    Bind([rt \in {c.ast[r].type} |->
    LET bad(cx) == ReturnSlot(report_bad_binaryop(cx), Check_Error, n) IN
    IF type_is_compound(lt) THEN bad(c)
    ELSE IF ~type_is_numeric(rt) THEN bad(c)
    ELSE IF type_is_rawptr(lt) THEN [ERROR(c) EXCEPT !.ret = n]
    ELSE
    \* 1114-1132: basic pointer math
    Bind([c1 \in {
        IF ~type_is_pointer(lt) THEN Return(c, Check_Success)
        ELSE IF op \notin {"Add", "Minus"} THEN bad(c) ELSE
        Bind([cp0 \in {resolve_expression_type(c, r)} |->
        IF ~type_is_integer(cp0.ast[r].type) THEN bad(cp0) ELSE
        Bind([numlit \in {NewId(cp0)} |->
        Bind([cp1 \in {[make_int_literal(cp0, type_size_of(lt[2])) EXCEPT
                            !.ast[numlit].type = cp0.ast[r].type]} |->
        Bind([binop_node \in {NewId(cp1)} |->
        Bind([cp2 \in {make_binary_op(cp1, "Multiply", r, numlit)} |->
        Bind([cp3 \in {SeenByCHECK(Call("check_binaryop", cp2, binop_node))} |->
        IF Bails(cp3) THEN [cp3 EXCEPT !.ret = n]
        ELSE Return(SetType(SetType(SetField(count_scaling(cp3, n), n, "right", cp3.ret),
                                    n, lt),
                            cp3.ret, lt), Check_Success)])])])])])])} |->
    IF Bails(c1) THEN c1 ELSE
    \* 1136-1153
    Bind([l1 \in {c1.ast[n].left} |->
    Bind([r1 \in {c1.ast[n].right} |->
    Bind([tc \in {IF types_are_compatible(c1.ast[l1].type, c1.ast[r1].type) THEN "OK"
                  ELSE IF node_is_auto_cast(c1, l1) /\ node_is_auto_cast(c1, r1)
                  THEN "FAILED"
                  ELSE TYPE_CHECK_both(c1, l1, c1.ast[r1].type, r1, c1.ast[l1].type)} |->
    IF tc = "YIELD" THEN [YIELD(c1) EXCEPT !.ret = n]
    ELSE IF tc = "FAILED" THEN [ERROR(c1) EXCEPT !.ret = n] ELSE
    Bind([c2 \in {SetType(c1, n, c1.ast[l1].type)} |->
    IF ~binary_op_is_allowed(op, c2.ast[n].type) THEN bad(c2)
    \* 1160-1167
    ELSE IF binaryop_is_final(c2)
    THEN Bind([c3 \in {AddFlag(c2, n, "Has_Been_Checked")} |->
         IF "Comptime" \in c3.ast[n].flags
         THEN ReturnSlot(ast_reduce(c3, n), Check_Success, NewId(c3))
         ELSE ReturnSlot(c3, Check_Success, n)])
    ELSE ReturnSlot(c2, Check_Success, n)])])])])])])])])])])

(* A binary operation that is never marked Comptime.                       *)
check_binaryop_ordinary_unmarked(c0, n) ==
        Bind([cL \in {CHECK_expression(c0, n, "left")} |->
        IF Bails(cL) THEN [cL EXCEPT !.ret = n] ELSE
        Bind([cR \in {CHECK_expression(cL, n, "right")} |->
        IF Bails(cR) THEN [cR EXCEPT !.ret = n] ELSE
        Bind([c1 \in {[cR EXCEPT !.lvl = c0.lvl]} |->
        Bind([c2 \in {c1} |->
        IF c2.etmbk /\ (c2.ast[c1.ast[n].left].type = NULLT \/ c2.ast[c1.ast[n].right].type = NULLT) THEN [ERROR(c2) EXCEPT !.ret = n] ELSE
        \* 1072-1088: operator overloading is tried first
        Bind([c3 \in {IF \/ (c2.ast[c1.ast[n].left].type # NULLT /\ TKind(c2.ast[c1.ast[n].left].type) # "Basic")
                         \/ (c2.ast[c1.ast[n].right].type # NULLT /\ TKind(c2.ast[c1.ast[n].right].type) # "Basic")
                      THEN binaryop_try_operator_overload(c2, n, NoNode)
                      ELSE [c2 EXCEPT !.ret = NoNode]} |->
        LET waits(x) == c3.ast[x].type = NULLT /\ HasEntity(c3, x)
                        /\ EntityState(c3, x) <= Entity_State_Check_Types IN
        IF c3.ret = node_that_signals_a_yield THEN [YIELD(c3) EXCEPT !.ret = n]
        ELSE IF c3.ret # NoNode THEN CHECK_call_in_slot(c3, c3.ret)
        ELSE IF binop_is_assignment(c0.ast[n].operation)
        THEN [Call("check_binaryop_assignment", c3, n) EXCEPT !.ret = n]
        ELSE IF waits(c1.ast[n].left) THEN [YIELD(c3) EXCEPT !.ret = n]
        ELSE IF waits(c1.ast[n].right) THEN [YIELD(c3) EXCEPT !.ret = n]
        ELSE IF binop_is_compare(c0.ast[n].operation) THEN Call("check_binaryop_compare", c3, n)
        ELSE IF c0.ast[n].operation \in {"Bool_And", "Bool_Or"} THEN Call("check_binaryop_bool", c3, n)
        ELSE check_binaryop_arith(c3, n)])])])])])

(* checker.c:1044-1175, for operands that are not Unary_Field_Access       *)
(* (1049-1059).                                                            *)
check_binaryop_ordinary(c0, n) ==
        Bind([cL \in {CHECK_expression(store_checking_level(c0, "check_binaryop", n),
                                       n, "left")} |->
        IF Bails(cL) THEN [cL EXCEPT !.ret = n] ELSE
        Bind([cR \in {CHECK_expression(cL, n, "right")} |->
        IF Bails(cR) THEN [cR EXCEPT !.ret = n] ELSE
        Bind([c1 \in {restore_checking_level(cR, c0.lvl, "check_binaryop", n)} |->
        Bind([c2 \in {IF "Comptime" \in c1.ast[c1.ast[n].left].flags /\ "Comptime" \in c1.ast[c1.ast[n].right].flags
                      THEN AddFlag(c1, n, "Comptime") ELSE c1} |->
        IF c2.etmbk /\ (c2.ast[c1.ast[n].left].type = NULLT \/ c2.ast[c1.ast[n].right].type = NULLT) THEN [ERROR(c2) EXCEPT !.ret = n] ELSE
        \* 1072-1088: operator overloading is tried first
        Bind([c3 \in {IF \/ (c2.ast[c1.ast[n].left].type # NULLT /\ TKind(c2.ast[c1.ast[n].left].type) # "Basic")
                         \/ (c2.ast[c1.ast[n].right].type # NULLT /\ TKind(c2.ast[c1.ast[n].right].type) # "Basic")
                      THEN binaryop_try_operator_overload(c2, n, NoNode)
                      ELSE [c2 EXCEPT !.ret = NoNode]} |->
        LET waits(x) == c3.ast[x].type = NULLT /\ HasEntity(c3, x)
                        /\ EntityState(c3, x) <= Entity_State_Check_Types IN
        IF c3.ret = node_that_signals_a_yield THEN [YIELD(c3) EXCEPT !.ret = n]
        ELSE IF c3.ret # NoNode THEN CHECK_call_in_slot(c3, c3.ret)
        ELSE IF binop_is_assignment(c0.ast[n].operation)
        THEN [Call("check_binaryop_assignment",
                   Log(c3, "assign", "check_binaryop", n, c3.lvl), n) EXCEPT !.ret = n]
        ELSE IF waits(c1.ast[n].left) THEN [YIELD(c3) EXCEPT !.ret = n]
        ELSE IF waits(c1.ast[n].right) THEN [YIELD(c3) EXCEPT !.ret = n]
        ELSE IF binop_is_compare(c0.ast[n].operation) THEN Call("check_binaryop_compare", c3, n)
        ELSE IF c0.ast[n].operation \in {"Bool_And", "Bool_Or"} THEN Call("check_binaryop_bool", c3, n)
        ELSE check_binaryop_arith(c3, n)])])])])])

(* checker.c:1017-1031: the operands are checked and the node that stands  *)
(* for a[i] = v in the overload lookup is made.                            *)
make_potential_substitute(c0, n) ==
    Bind([sub \in {c0.ast[n].left} |->
    Bind([c1 \in {CHECK_expression(c0, sub, "left")} |->
    IF Bails(c1) THEN c1 ELSE
    Bind([c2 \in {CHECK_expression(c1, sub, "right")} |->
    IF Bails(c2) THEN c2 ELSE
    Bind([c3 \in {CHECK_expression(c2, n, "right")} |->
    IF Bails(c3) THEN c3 ELSE
    Return(SetField(make_binary_op([c3 EXCEPT !.lvl = c0.lvl], "Subscript_Equals",
                                   c3.ast[sub].left, c3.ast[sub].right),
                    n, "potential_substitute", NewId(c3)),
           Check_Success)])])])])

(* An assignment a[i] = v that never asks the Subscript_Equals overloads.  *)
check_binaryop_no_subscript_equals(c0, n) ==
    IF HasFlag(c0, n, "Has_Been_Checked") THEN ReturnSlot(c0, Check_Success, n)
    ELSE check_binaryop_ordinary(c0, n)

(* checker.c:1009-1175 *)
check_binaryop(c0, n) ==
    IF HasFlag(c0, n, "Has_Been_Checked") THEN ReturnSlot(c0, Check_Success, n)
    ELSE IF ~(/\ c0.ast[n].operation = "Assign"
              /\ c0.ast[c0.ast[n].left].kind = "Subscript"
              /\ c0.env.ovl["Subscript_Equals"] # "none")
    THEN check_binaryop_ordinary(c0, n) ELSE
    \* 1014-1042
    Bind([cS \in {IF c0.ast[n].potential_substitute # NoNode
                  THEN Return(c0, Check_Success)
                  ELSE make_potential_substitute(c0, n)} |->
    IF Bails(cS) THEN [cS EXCEPT !.ret = n] ELSE
    Bind([cT \in {binaryop_try_operator_overload(cS, cS.ast[n].potential_substitute,
                                                cS.ast[n].right)} |->
    Bind([call \in {cT.ret} |->
    IF call = node_that_signals_a_yield THEN [YIELD(cT) EXCEPT !.ret = n]
    ELSE IF call # NoNode
    THEN CHECK_call_in_slot([cT EXCEPT !.ast[call].next = cT.ast[n].next], call)
    ELSE check_binaryop_ordinary(cT, n)])])])

type_is_array_accessible(t) == TKind(t) \in {"Pointer", "Array"}
type_get_contained_type(t) == IF TKind(t) \in {"Pointer", "Array"} THEN t[2] ELSE NULLT
type_is_small_integer(t) == t = T_i32

(* checker.c:1562-1637, for the pointer and array types of the inputs      *)
(* (no slices, dynamic arrays or range subscripts, 1594-1620).  An         *)
(* AstSubscript overlays an AstBinaryOp: addr is left, expr is right.      *)
check_subscript(c0, n) ==
    Bind([cA \in {CHECK_expression(c0, n, "left")} |->
        IF Bails(cA) THEN [cA EXCEPT !.ret = n] ELSE
        Bind([cE \in {CHECK_expression(cA, n, "right")} |->
        IF Bails(cE) THEN [cE EXCEPT !.ret = n] ELSE
        Bind([a \in {cE.ast[n].left} |->
        Bind([e \in {cE.ast[n].right} |->
        Bind([at \in {cE.ast[a].type} |->
        Bind([et \in {cE.ast[e].type} |->
        IF at = NULLT THEN [YIELD(cE) EXCEPT !.ret = n] ELSE
        \* the subscript is read as a binary op: left = addr, right = expr
        Bind([c1 \in {IF et # NULLT /\ (TKind(at) # "Basic" \/ TKind(et) # "Basic")
                      THEN binaryop_try_operator_overload(cE, n, NoNode)
                      ELSE [cE EXCEPT !.ret = NoNode]} |->
        Bind([implicit_call \in {c1.ret} |->
        IF implicit_call = node_that_signals_a_yield THEN [YIELD(c1) EXCEPT !.ret = n]
        ELSE IF implicit_call # NoNode THEN CHECK_call_in_slot(c1, implicit_call)
        ELSE IF ~type_is_array_accessible(at)
        THEN ReturnSlot(report_bad_binaryop(c1), Check_Error, n) ELSE
        Bind([c2 \in {resolve_expression_type(c1, e)} |->
        IF ~type_is_small_integer(c2.ast[e].type)
        THEN [ERROR(report_bad_binaryop(c2)) EXCEPT !.ret = n] ELSE
        Bind([c3 \in {SetType(c2, n, type_get_contained_type(at))} |->
        IF c3.ast[n].type = NULLT
        THEN [ERROR(report_bad_binaryop(c3)) EXCEPT !.ret = n]
        ELSE ReturnSlot(c3, Check_Success, n)])])])])])])])])])])


(* checker.c:1475-1546 *)
check_address_of(c0, n) ==
    Bind([expr \in {strip_aliases(c0, c0.ast[n].expr)} |->
    IF ~(c0.ast[expr].kind = "Subscript" /\ c0.env.ovl["Ptr_Subscript"] # "none")
        THEN check_address_of_operand(c0, n) ELSE
        \* 1480-1491
        Bind([cS \in {
            IF c0.ast[n].potential_substitute # NoNode THEN Return(c0, Check_Success) ELSE
            Bind([cs1 \in {CHECK_expression(c0, expr, "left")} |->
            IF Bails(cs1) THEN cs1 ELSE
            Bind([cs2 \in {CHECK_expression(cs1, expr, "right")} |->
            IF Bails(cs2) THEN cs2 ELSE
            Return(SetField(make_binary_op(cs2, "Ptr_Subscript",
                                           cs2.ast[expr].left, cs2.ast[expr].right),
                            n, "potential_substitute", NewId(cs2)),
                   Check_Success)])])} |->
        IF Bails(cS) THEN [cS EXCEPT !.ret = n] ELSE
        \* 1493-1501
        Bind([cT \in {binaryop_try_operator_overload(cS, cS.ast[n].potential_substitute,
                                                    NoNode)} |->
        Bind([call \in {cT.ret} |->
        IF call = node_that_signals_a_yield THEN [YIELD(cT) EXCEPT !.ret = n]
        ELSE IF call # NoNode THEN CHECK_call_in_slot(cT, call)
        ELSE check_address_of_operand(cT, n)])])])])


(* checker.c:534-539 *)
check_argument(c0, n) ==
    Bind([c1 \in {CHECK_expression(c0, n, "value")} |->
    (IF Bails(c1) THEN c1
          ELSE Return(SetType(c1, n, c1.ast[c1.ast[n].value].type), Check_Success))])

(* checker.c:524-532 (the inputs have no named values), from value i on.   *)
RECURSIVE check_arguments_from(_, _, _)
check_arguments_from(c, n, i) ==
    IF i > Len(c.ast[n].values) THEN Return(c, Check_Success)
    ELSE Bind([c1 \in {CHECK_expression_value(c, n, i)} |->
             IF Bails(c1) THEN c1 ELSE check_arguments_from(c1, n, i + 1)])
check_arguments(c, n) == (check_arguments_from(c, n, 1))

(* report_unable_to_match_overload *)
report_unable_to_match_overload(c) == onyx_report_error(c)

(* macro_resolve_header and polymorphic_proc_lookup: NULL, the yield       *)
(* sentinel, or the concrete function.                                     *)
macro_resolve_header(c) ==
    CASE c.env.macro = "ok" -> c.env.macro_fn
      [] c.env.macro = "yield" -> node_that_signals_a_yield
      [] OTHER -> NoNode
polymorphic_proc_lookup(c) ==
    CASE c.env.poly = "ok" -> c.env.poly_fn
      [] c.env.poly = "yield" -> node_that_signals_a_yield
      [] OTHER -> NoNode

(* checker.c:541-604.  *effective_callee is left in c.ret.                 *)
check_resolve_callee(c0, call) ==
    IF c0.ast[call].kind = "Intrinsic_Call" THEN Return(c0, Check_Success) ELSE
        Bind([callee0 \in {strip_aliases(c0, c0.ast[call].callee)} |->
        \* 547-562
        Bind([callee1 \in {IF c0.ast[callee0].kind = "Overloaded_Function"
                           THEN find_matching_overload_by_arguments(c0, "call")
                           ELSE callee0} |->
        IF callee1 = NoNode THEN Return(report_unable_to_match_overload(c0), Check_Error)
        ELSE IF callee1 = node_that_signals_a_yield THEN YIELD(c0) ELSE
        Bind([calling_a_macro \in {c0.ast[callee1].kind = "Macro"} |->
        \* 564-574
        Bind([c1 \in {IF calling_a_macro THEN SetField(c0, call, "callee", callee1)
                      ELSE c0} |->
        \* 577-585 (one lookup yields a concrete function)
        Bind([callee \in {IF calling_a_macro THEN macro_resolve_header(c1)
                          ELSE IF c0.ast[callee1].kind = "Polymorphic_Proc"
                          THEN polymorphic_proc_lookup(c1)
                          ELSE callee1} |->
        IF callee = NoNode THEN Return(c1, Check_Error)
        ELSE IF callee = node_that_signals_a_yield THEN YIELD(c1) ELSE
        \* 588-602
        Bind([c2 \in {fill_in_type(c1, callee)} |->
        IF c2.ast[callee].type = NULLT THEN YIELD(c2) ELSE
        Bind([c3 \in {IF ~calling_a_macro THEN SetField(c2, call, "callee", callee)
                      ELSE c2} |->
        IF TKind(c3.ast[callee].type) # "Function" THEN ERROR(c3)
        ELSE ReturnSlot(c3, Check_Success, callee)])])])])])])])

(* arguments_ensure_length: pad the argument array with NULL.              *)
arguments_ensure_length(vals, count) ==
    [i \in 1..(IF count > Len(vals) THEN count ELSE Len(vals)) |->
        IF i <= Len(vals) THEN vals[i] ELSE NoNode]

(* expand_macro: the call is replaced by a copy of the macro's body.       *)
expand_macro(c, callee) == Alloc(c, Mk([kind |-> "Block", body |-> <<>>]))

(* A call that does not wait for the constraints of its callee.            *)
callee_constraints_ignored(c, callee) == FALSE

(* add_entities_for_node: a new entity for the node enters the heap.       *)
add_entities_for_node(c, type, n) ==
    [c EXCEPT !.ents = Append(@, [type |-> type, node |-> n,
                                  state |-> Entity_State_Resolve_Symbols,
                                  macro_attempts |-> 0, micro_attempts |-> 0]),
              !.heap = Append(@, Len(c.ents) + 1),
              !.ast[n].entity = Len(c.ents) + 1]

(* ast_clone: a copy of the node.                                          *)
ast_clone(c, n) == Alloc(c, c.ast[n])

(* An argument of the call whose value is a #callsite.                     *)
is_call_site_argument(c, arg) ==
    /\ arg \in DOMAIN c.ast
    /\ c.ast[arg].kind = "Argument"
    /\ c.ast[arg].value \in DOMAIN c.ast
    /\ c.ast[c.ast[arg].value].kind = "Call_Site"

(* checker.c:661-691: the arguments of the call from the i-th on; the      *)
(* value of a Call_Site argument is replaced by a clone with a new         *)
(* filename literal, which becomes an entity, and new line and column      *)
(* literals.                                                               *)
RECURSIVE clone_call_sites(_, _, _)
clone_call_sites(c, n, i) ==
    IF i > Len(c.ast[n].values) THEN c
    ELSE
    Bind([arg \in {c.ast[n].values[i]} |->
    IF ~is_call_site_argument(c, arg) THEN clone_call_sites(c, n, i + 1)
    ELSE
    Bind([callsite \in {NewId(c)} |->
    Bind([c1 \in {SetField(ast_clone(c, c.ast[arg].value), callsite, "callsite_of", n)} |->
    Bind([filename \in {NewId(c1)} |->
    Bind([c2 \in {add_entities_for_node(Alloc(c1, Mk([kind |-> "StrLit"])),
                                        "String_Literal", filename)} |->
    Bind([c3 \in {make_int_literal(make_int_literal(c2, 1), 1)} |->
    clone_call_sites(
        SetField(SetField(SetField(SetField(c3, callsite, "filename", filename),
                                   callsite, "line", NewId(c2)),
                          callsite, "column", NewId(c2) + 1),
                 arg, "value", callsite),
        n, i + 1)])])])])])])

(* checker.c:638-642: the callee is a procedure whose constraints are not  *)
(* met yet.                                                                *)
callee_constraints_pending(c, callee) ==
    /\ c.ast[callee].kind = "Function"
    /\ c.ast[callee].has_constraints
    /\ ~c.ast[callee].constraints_met

(* checker.c:606-739, for callees that are not polymorphic struct types    *)
(* (620-627).                                                              *)
check_call(c0, n) ==
    IF HasFlag(c0, n, "Has_Been_Checked") THEN ReturnSlot(c0, Check_Success, n) ELSE
        Bind([current_checking_level_store \in {c0.lvl} |->
        Bind([c1 \in {CHECK_expression(store_checking_level(c0, "check_call", n),
                                       n, "callee")} |->
        IF Bails(c1) THEN [c1 EXCEPT !.ret = n] ELSE
        Bind([c2 \in {SeenByCHECK(Call("check_arguments", c1, n))} |->
        IF Bails(c2) THEN [c2 EXCEPT !.ret = n] ELSE
        Bind([c3 \in {[restore_checking_level(c2, current_checking_level_store,
                                             "check_call", n) EXCEPT !.ret = NoNode]} |->
        \* 635-636: callee stays NULL when the call is an intrinsic call already
        Bind([cR \in {SeenByCHECK(Call("check_resolve_callee", c3, n))} |->
        IF Bails(cR) THEN [cR EXCEPT !.ret = n] ELSE
        Bind([callee \in {cR.ret} |->
        IF callee = NoNode THEN [Crash(cR) EXCEPT !.ret = n] ELSE
        Bind([c4 \in {Log(cR, "callee", "check_call", n, callee)} |->
        Bind([is_fn \in {c4.ast[callee].kind = "Function"} |->
        IF callee_constraints_pending(c4, callee)
        THEN [YIELD(c4) EXCEPT !.ret = n] ELSE
        \* 644-657
        Bind([ft \in {c4.ast[callee].type} |->
        Bind([c5 \in {SetField(c4, n, "values",
                               arguments_ensure_length(c4.ast[n].values, ft[3]))} |->
        IF \E i \in 1..Len(c5.ast[n].values) : c5.ast[n].values[i] = NoNode
        THEN [ERROR(c5) EXCEPT !.ret = n] ELSE
        \* 658-691
        Bind([cS \in {clone_call_sites(c5, n, 1)} |->
        \* 694-711
        Bind([intrinsic \in {is_fn /\ cS.ast[callee].is_intrinsic} |->
        Bind([c6 \in {IF intrinsic
                      THEN SetField(SetField(cS, n, "kind", "Intrinsic_Call"),
                                    n, "callee", NoNode)
                      ELSE cS} |->
        IF intrinsic /\ "Intrinsic_Known" \notin c6.ast[callee].flags
        THEN ReturnSlot(onyx_report_error(c6), Check_Error, n) ELSE
        \* 713-717; call->callee is NULL after 697 and is dereferenced at 716
        Bind([c7 \in {SetType(c6, n, ft[2])} |->
        IF c7.ast[n].type = type_auto_return /\ c7.ast[n].callee = NoNode
        THEN [Crash(c7) EXCEPT !.ret = n]
        ELSE IF c7.ast[n].type = type_auto_return
                /\ c7.ast[c7.ast[n].callee].kind # "Macro"
        THEN [YIELD(c7) EXCEPT !.ret = n] ELSE
        \* 719-728
        Bind([tm \in {c7.env.tm} |->
        IF tm = "FAILED" THEN ReturnSlot(onyx_submit_error(c7), Check_Error, n)
        ELSE IF tm = "YIELD" THEN [YIELD(c7) EXCEPT !.ret = n] ELSE
        \* 730-738
        Bind([c8 \in {[AddFlag(c7, n, "Has_Been_Checked") EXCEPT
                          !.ast[callee].flags = @ \cup {"Function_Used"}]} |->
        IF c8.ast[n].kind = "Call" /\ c8.ast[c8.ast[n].callee].kind = "Macro"
        THEN ReturnSlot(expand_macro(c8, callee), Check_Return_To_Symres, NewId(c8))
        ELSE ReturnSlot(c8, Check_Success, n)])])])])])])])])])])])])])])])])


(* checker.c:1973-2006 *)
check_insert_directive(c0, n) ==
    IF HasFlag(c0, n, "Has_Been_Checked") THEN ReturnSlot(c0, Check_Success, n) ELSE
        Bind([c1 \in {CHECK_expression(c0, n, "code_expr")} |->
        IF Bails(c1) THEN [c1 EXCEPT !.ret = n] ELSE
        Bind([ce \in {c1.ast[n].code_expr} |->
        IF c1.ast[ce].type = NULLT
        THEN IF HasEntity(c1, ce) /\ EntityState(c1, ce) >= Entity_State_Code_Gen
             THEN [ERROR(c1) EXCEPT !.ret = n]
             ELSE [YIELD(c1) EXCEPT !.ret = n]
        ELSE
        Bind([tc \in {unify_node_and_type(c1, ce, c1.env.code_type)} |->
        IF tc = "YIELD" THEN [YIELD(c1) EXCEPT !.ret = n]
        ELSE IF tc = "FAILED" THEN [ERROR(c1) EXCEPT !.ret = n] ELSE
        Bind([code_block \in {strip_aliases(c1, ce)} |->
        Bind([cloned_block \in {NewId(c1)} |->
        ReturnSlot(AddFlag(ast_clone(c1, c1.ast[code_block].code), n, "Has_Been_Checked"),
                   Check_Return_To_Symres, cloned_block)])])])])])

(* checker.c:2034-2040 *)
check_remove_directive(c0, n) ==
    (IF ~c0.ifi THEN ERROR(c0) ELSE Return(c0, Check_Success))

(* checker.c:1388-1425.  builtin_range_type is the type AST of the range  *)
(* structure and range_step the initial value of its step member.          *)
check_range_literal(c0, n) ==
    IF HasFlag(c0, n, "Has_Been_Checked") THEN ReturnSlot(c0, Check_Success, n) ELSE
    Bind([c1 \in {CHECK_expression(c0, n, "low")} |->
    IF Bails(c1) THEN [c1 EXCEPT !.ret = n] ELSE
    Bind([c2a \in {CHECK_expression(c1, n, "high")} |->
    IF Bails(c2a) THEN [c2a EXCEPT !.ret = n] ELSE
    Bind([c2 \in {[c2a EXCEPT !.brtt = type_build_from_ast(c2a, c2a.env.builtin_range_type)]} |->
    IF c2.brtt = NULLT THEN [YIELD(c2) EXCEPT !.ret = n] ELSE
    Bind([tl \in {unify_node_and_type(c2, c2.ast[n].low,
                                      type_lookup_member(c2.brtt, "low").type)} |->
    IF tl = "YIELD" THEN [YIELD(c2) EXCEPT !.ret = n]
    ELSE IF tl = "FAILED" THEN [ERROR(c2) EXCEPT !.ret = n] ELSE
    Bind([th \in {unify_node_and_type(c2, c2.ast[n].high,
                                      type_lookup_member(c2.brtt, "high").type)} |->
    IF th = "YIELD" THEN [YIELD(c2) EXCEPT !.ret = n]
    ELSE IF th = "FAILED" THEN [ERROR(c2) EXCEPT !.ret = n] ELSE
    \* 1415-1421
    Bind([c3 \in {IF c2.ast[n].step # NoNode THEN c2 ELSE
                  Bind([st \in {SeenByCHECK(Call("check_expression", c2, c2.env.range_step))} |->
                  IF Bails(st) THEN st ELSE SetField(st, n, "step", st.ret)])} |->
    IF Bails(c3) THEN [c3 EXCEPT !.ret = n]
    ELSE ReturnSlot(AddFlag(c3, n, "Has_Been_Checked"), Check_Success, n)])])])])])])

(* checker.c:344-357.  The result (1 for a value that is in the map        *)
(* already) is left in c.ret; the log keeps what was done with the value.  *)
add_case_to_switch_statement_no_report(c, n, case_value) ==
    Bind([c1 \in {[c EXCEPT !.ast[n].min_case = IF @ = -1 \/ case_value < @ THEN case_value ELSE @,
                            !.ast[n].max_case = IF case_value > @ THEN case_value ELSE @]} |->
    IF case_value \in c1.ast[n].case_map
    THEN [Log(c1, "case", "collision", n, case_value) EXCEPT !.ret = 0]
    ELSE [Log([c1 EXCEPT !.ast[n].case_map = @ \cup {case_value}], "case", "put", n, case_value)
          EXCEPT !.ret = 0]])
add_case_to_switch_statement(c, n, case_value) ==
    Bind([c1 \in {[c EXCEPT !.ast[n].min_case = IF @ = -1 \/ case_value < @ THEN case_value ELSE @,
                            !.ast[n].max_case = IF case_value > @ THEN case_value ELSE @]} |->
    IF case_value \in c1.ast[n].case_map
    THEN [onyx_report_error(Log(c1, "case", "collision", n, case_value)) EXCEPT !.ret = 1]
    ELSE [Log([c1 EXCEPT !.ast[n].case_map = @ \cup {case_value}], "case", "put", n, case_value)
          EXCEPT !.ret = 0]])

(* checker.c:359-391, from statement i of the block root on.  The status   *)
(* of the call for a nested block is dropped (364).                        *)
RECURSIVE collect_switch_case_blocks(_, _, _, _)
collect_switch_case_blocks(c, switchnode, root, i) ==
    IF i > Len(c.ast[root].body) THEN Return(c, Check_Success) ELSE
    Bind([walker \in {c.ast[root].body[i]} |->
    CASE c.ast[walker].kind = "Block" ->
           collect_switch_case_blocks(collect_switch_case_blocks(c, switchnode, walker, 1),
                                      switchnode, root, i + 1)
      [] c.ast[walker].kind = "Switch_Case" ->
           IF c.ast[walker].is_default
           THEN IF c.ast[switchnode].default_case # NoNode
                   /\ c.ast[switchnode].default_case # c.ast[walker].block
                THEN ERROR(c)
                ELSE collect_switch_case_blocks(
                        SetField(c, switchnode, "default_case", c.ast[walker].block),
                        switchnode, root, i + 1)
           ELSE collect_switch_case_blocks(
                        [c EXCEPT !.ast[switchnode].cases = Append(@, walker)],
                        switchnode, root, i + 1)
      [] OTHER -> ERROR(c)])

(* checker.c:461-464: the values lower..upper of a range are added.       *)
RECURSIVE add_range_to_switch_statement(_, _, _, _)
add_range_to_switch_statement(c, n, case_value, upper) ==
    IF case_value > upper THEN Return(c, Check_Success) ELSE
    Bind([a \in {add_case_to_switch_statement(c, n, case_value)} |->
    IF a.ret = 1 THEN Return(a, Check_Error)
    ELSE add_range_to_switch_statement(a, n, case_value + 1, upper)])

(* get_expression_integer_value: the value of a compile time integer.      *)
get_expression_integer_value_is_valid(c, v) ==
    c.ast[v].kind = "NumLit" /\ type_is_integer(c.ast[v].type)

(* checker.c:442-513: the values of the case sc from value j on.           *)
RECURSIVE check_switch_values(_, _, _, _, _)
check_switch_values(c, n, sc, j, resolved_expr_type) ==
    IF j > Len(c.ast[sc].values) THEN Return(c, Check_Success) ELSE
    Bind([c1 \in {CHECK_expression_value(c, sc, j)} |->
    IF Bails(c1) THEN c1 ELSE
    Bind([value \in {c1.ast[sc].values[j]} |->
    IF c1.ast[n].switch_kind = "Integer" /\ c1.ast[value].kind = "Range_Literal"
    THEN \* 445-467
         Bind([c2 \in {resolve_expression_type(resolve_expression_type(c1, c1.ast[value].low),
                                               c1.ast[value].high)} |->
         IF c2.ast[c2.ast[value].low].kind # "NumLit" \/ c2.ast[c2.ast[value].high].kind # "NumLit"
         THEN ERROR(c2) ELSE
         Bind([c3 \in {add_range_to_switch_statement(c2, n, c2.ast[c2.ast[value].low].value,
                                                     c2.ast[c2.ast[value].high].value)} |->
         IF c3.cs # Check_Success THEN c3
         ELSE check_switch_values(c3, n, sc, j + 1, resolved_expr_type)])])
    ELSE
    \* 469-475
    Bind([tc \in {unify_node_and_type(c1, value, resolved_expr_type)} |->
    IF tc = "YIELD" THEN YIELD(c1)
    ELSE IF tc = "FAILED" THEN ERROR(c1)
    ELSE IF c1.ast[n].switch_kind = "Integer" THEN
         \* 478-487
         IF ~get_expression_integer_value_is_valid(c1, value) THEN ERROR(c1) ELSE
         Bind([a \in {add_case_to_switch_statement(c1, n, c1.ast[value].value)} |->
         IF a.ret = 1 THEN Return(a, Check_Error)
         ELSE check_switch_values(a, n, sc, j + 1, resolved_expr_type)])
    ELSE \* 490-510
         Bind([found \in {{i \in DOMAIN c1.ast[n].case_exprs :
                              c1.ast[n].case_exprs[i].original_value = value}} |->
         Bind([c4 \in {
             IF found # {}
             THEN Bind([i \in {CHOOSE i \in found : \A k \in found : i <= k} |->
                  Bind([r \in {Call("check_expression", c1, c1.ast[n].case_exprs[i].comparison)} |->
                  SeenByCHECK([r EXCEPT !.ast[n].case_exprs[i].comparison = r.ret])])])
             ELSE Bind([cmp \in {NewId(c1)} |->
                  Bind([cp \in {[make_binary_op(c1, "Equal", c1.ast[n].expr, value)
                                 EXCEPT !.ast[n].case_exprs =
                                            Append(@, [block |-> c1.ast[sc].block,
                                                       original_value |-> value,
                                                       comparison |-> cmp])]} |->
                  Bind([r \in {Call("check_binaryop", cp, cmp)} |->
                  SeenByCHECK([r EXCEPT !.ast[n].case_exprs[Len(cp.ast[n].case_exprs)].comparison
                                            = r.ret])])])])} |->
         IF Bails(c4) THEN c4
         ELSE check_switch_values(c4, n, sc, j + 1, resolved_expr_type)])])])])])

(* checker.c:438-516: the cases from yield_return_index on.                *)
RECURSIVE check_switch_cases(_, _, _)
check_switch_cases(c, n, resolved_expr_type) ==
    IF c.ast[n].yield_return_index >= Len(c.ast[n].cases) THEN Return(c, Check_Success) ELSE
    Bind([sc \in {c.ast[n].cases[c.ast[n].yield_return_index + 1]} |->
    Bind([c1 \in {SeenByCHECK(Call("check_block", c, c.ast[sc].block))} |->
    IF Bails(c1) THEN c1 ELSE
    Bind([c2 \in {check_switch_values(c1, n, sc, 1, resolved_expr_type)} |->
    IF c2.cs # Check_Success THEN c2
    ELSE check_switch_cases([c2 EXCEPT !.ast[n].yield_return_index = @ + 1],
                            n, resolved_expr_type)])])])

(* checker.c:393-522, for a switch without an initialization.              *)
check_switch(c0, n) ==
    Bind([c1 \in {CHECK_expression(c0, n, "expr")} |->
    IF Bails(c1) THEN c1 ELSE
    Bind([c2 \in {resolve_expression_type(c1, c1.ast[n].expr)} |->
    Bind([resolved_expr_type \in {c2.ast[c2.ast[n].expr].type} |->
    IF ~HasFlag(c2, n, "Has_Been_Checked") /\ resolved_expr_type = NULLT THEN YIELD(c2) ELSE
    \* 402-420
    Bind([c3 \in {AddFlag(
            IF HasFlag(c2, n, "Has_Been_Checked") THEN c2
            ELSE IF type_is_integer(resolved_expr_type)
            THEN [c2 EXCEPT !.ast[n].switch_kind = "Integer", !.ast[n].min_case = -1,
                            !.ast[n].case_map = {}]
            ELSE [c2 EXCEPT !.ast[n].switch_kind = "Use_Equals", !.ast[n].case_exprs = <<>>],
            n, "Has_Been_Checked")} |->
    \* 426-436
    Bind([c4 \in {
        IF c3.ast[n].has_cases THEN Return(c3, Check_Success) ELSE
        Bind([cb \in {SeenByCHECK(Call("check_block", c3, c3.ast[n].case_block))} |->
        IF Bails(cb) THEN cb ELSE
        Bind([co \in {collect_switch_case_blocks(
                         [cb EXCEPT !.ast[n].has_cases = TRUE, !.ast[n].cases = <<>>],
                         n, cb.ast[n].case_block, 1)} |->
        IF co.cs # Check_Success THEN Return(co, Check_Error)
        ELSE [co EXCEPT !.ast[co.ast[n].case_block].statement_idx = 0]])])} |->
    IF c4.cs # Check_Success THEN c4 ELSE
    Bind([c5 \in {check_switch_cases(c4, n, resolved_expr_type)} |->
    IF c5.cs # Check_Success THEN c5
    ELSE IF c5.ast[n].default_case # NoNode
    THEN Bind([d \in {SeenByCHECK(Call("check_block", c5, c5.ast[n].default_case))} |->
         IF Bails(d) THEN d ELSE Return(d, Check_Success)])
    ELSE Return(c5, Check_Success)])])])])])])

(* *expected_return_type: the return type of the procedure whose body is  *)
(* checked (checker.c:130, 2156).                                          *)
(* Inside a do-block it is the type of the do-block (1463).                *)
ReturnType(c) ==
    IF c.ast[c.ert].kind = "Do_Block" THEN c.ast[c.ert].type ELSE c.ast[c.ert].type[2]
SetReturnType(c, t) ==
    Log([c EXCEPT !.ast[c.ert].type =
                      IF c.ast[c.ert].kind = "Do_Block" THEN t ELSE T_Function(t, @[3])],
        "rtype", "set", c.ert, IF ReturnType(c) = type_auto_return THEN 1 ELSE 0)
(* type->Basic.size of a basic type.                                       *)
Basic_size(t) == type_size_of(t)

(* A return that defines the return type whatever it was.                  *)
check_return_redefines(c0, n) ==
    IF c0.ast[n].expr # NoNode THEN
        Bind([c1 \in {CHECK_expression(c0, n, "expr")} |->
        IF Bails(c1) THEN c1 ELSE
        Bind([e \in {c1.ast[n].expr} |->
        IF TRUE THEN
            \* 136-143
            Bind([c2 \in {resolve_expression_type(c1, e)} |->
            IF c2.ast[e].type = NULLT THEN YIELD(c2)
            ELSE Return(SetReturnType(c2, c2.ast[e].type), Check_Success)])
        ELSE
        \* 145-160
        Bind([tc \in {unify_node_and_type(c1, e, ReturnType(c1))} |->
        IF tc = "YIELD" THEN YIELD(c1)
        ELSE IF tc = "FAILED" THEN ERROR(c1)
        ELSE IF c1.ast[e].kind = "Address_Of"
                /\ node_is_addressable_literal(c1, c1.ast[e].expr)
        THEN ERROR(c1)
        ELSE Return(c1, Check_Success)])])])
    ELSE \* 162-173
    IF TRUE
    THEN Return(SetReturnType(c0, T_void), Check_Success)
    ELSE IF Basic_size(ReturnType(c0)) > 0 THEN ERROR(c0)
    ELSE Return(c0, Check_Success)

(* checker.c:132-176 *)
check_return(c0, n) ==
    IF c0.ast[n].expr # NoNode THEN
        Bind([c1 \in {CHECK_expression(c0, n, "expr")} |->
        IF Bails(c1) THEN c1 ELSE
        Bind([e \in {c1.ast[n].expr} |->
        IF ReturnType(c1) = type_auto_return THEN
            \* 136-143
            Bind([c2 \in {resolve_expression_type(c1, e)} |->
            IF c2.ast[e].type = NULLT THEN YIELD(c2)
            ELSE Return(SetReturnType(c2, c2.ast[e].type), Check_Success)])
        ELSE
        \* 145-160
        Bind([tc \in {unify_node_and_type(c1, e, ReturnType(c1))} |->
        IF tc = "YIELD" THEN YIELD(c1)
        ELSE IF tc = "FAILED" THEN ERROR(c1)
        ELSE IF c1.ast[e].kind = "Address_Of"
                /\ node_is_addressable_literal(c1, c1.ast[e].expr)
        THEN ERROR(c1)
        ELSE Return(c1, Check_Success)])])])
    ELSE \* 162-173
    IF ReturnType(c0) = type_auto_return
    THEN Return(SetReturnType(c0, T_void), Check_Success)
    ELSE IF Basic_size(ReturnType(c0)) > 0 THEN ERROR(c0)
    ELSE Return(c0, Check_Success)

(* A method call that passes the receiver as the last argument.           *)
check_method_call_appends(c0, n) ==
    Bind([c1 \in {CHECK_expression(c0, n, "left")} |->
    IF Bails(c1) THEN [c1 EXCEPT !.ret = n]
    ELSE IF c1.ast[c1.ast[n].left].type = NULLT THEN [YIELD(c1) EXCEPT !.ret = n] ELSE
    Bind([call_node \in {c1.ast[n].right} |->
    \* 1735-1752
    Bind([c2 \in {
        IF HasFlag(c1, n, "Has_Been_Checked") THEN [c1 EXCEPT !.ret = n] ELSE
        Bind([receiver \in {c1.ast[n].left} |->
        Bind([c3 \in {IF TKind(c1.ast[receiver].type) # "Pointer"
                      THEN [make_address_of(c1, receiver)
                            EXCEPT !.ast[NewId(c1)].can_be_removed = TRUE, !.ret = NewId(c1)]
                      ELSE [c1 EXCEPT !.ret = receiver]} |->
        Bind([implicit_argument \in {NewId(c3)} |->
        [Log([make_argument(c3, c3.ret)
              EXCEPT !.ast[call_node].values = @ \o <<implicit_argument>>,
                     !.ast[call_node].next = c1.ast[n].next],
             "self", "insert", call_node, implicit_argument)
         EXCEPT !.ret = call_node]])])])} |->
    \* 1754-1757
    Bind([c4 \in {SeenByCHECK(Call("check_call", AddFlag(c2, n, "Has_Been_Checked"), c2.ret))} |->
    IF Bails(c4) THEN c4 ELSE Return(c4, Check_Success)])])])])

(* checker.c:1724-1758 *)
check_method_call(c0, n) ==
    Bind([c1 \in {CHECK_expression(c0, n, "left")} |->
    IF Bails(c1) THEN [c1 EXCEPT !.ret = n]
    ELSE IF c1.ast[c1.ast[n].left].type = NULLT THEN [YIELD(c1) EXCEPT !.ret = n] ELSE
    Bind([call_node \in {c1.ast[n].right} |->
    \* 1735-1752
    Bind([c2 \in {
        IF HasFlag(c1, n, "Has_Been_Checked") THEN [c1 EXCEPT !.ret = n] ELSE
        Bind([receiver \in {c1.ast[n].left} |->
        Bind([c3 \in {IF TKind(c1.ast[receiver].type) # "Pointer"
                      THEN [make_address_of(c1, receiver)
                            EXCEPT !.ast[NewId(c1)].can_be_removed = TRUE, !.ret = NewId(c1)]
                      ELSE [c1 EXCEPT !.ret = receiver]} |->
        Bind([implicit_argument \in {NewId(c3)} |->
        [Log([make_argument(c3, c3.ret)
              EXCEPT !.ast[call_node].values = <<implicit_argument>> \o @,
                     !.ast[call_node].next = c1.ast[n].next],
             "self", "insert", call_node, implicit_argument)
         EXCEPT !.ret = call_node]])])])} |->
    \* 1754-1757
    Bind([c4 \in {SeenByCHECK(Call("check_call", AddFlag(c2, n, "Has_Been_Checked"), c2.ret))} |->
    IF Bails(c4) THEN c4 ELSE Return(c4, Check_Success)])])])])

make_range_literal(c, low, high) ==
    Alloc(c, Mk([kind |-> "Range_Literal", low |-> low, high |-> high]))

type_struct_constructed_from_poly_struct(t) ==
    TKind(t) = "Struct" /\ Len(t) = 3 /\ t[2] = "Iterator"

(* checker.c:315-325: the end of the first pass of check_for.              *)
check_for_classified(c, n) ==
    Bind([c1 \in {IF c.ast[n].by_pointer
                  THEN AddFlag(c, c.ast[n].var, "Cannot_Take_Addr") ELSE c} |->
    IF c1.ast[n].loop_type = "Invalid" THEN ERROR(c1)
    ELSE Return(AddFlag(IF c1.ast[n].no_close /\ c1.ast[n].loop_type # "Iterator"
                        THEN Log(c1, "warning", "onyx_report_warning", 0, 0) ELSE c1,
                        n, "Has_Been_Checked"),
                Check_Success)])

(* A first pass that gives every loop variable the type of what it        *)
(* iterates over.                                                          *)
check_for_iterable_untyped(c0, n) ==
    Bind([c1 \in {CHECK_expression(c0, n, "iter")} |->
    IF Bails(c1) THEN c1 ELSE
    Bind([c2 \in {resolve_expression_type(c1, c1.ast[n].iter)} |->
    IF c2.ast[c2.ast[n].iter].type = NULLT THEN YIELD(c2)
    ELSE check_for_classified(
             SetField(SetType(c2, c2.ast[n].var, c2.ast[c2.ast[n].iter].type),
                      n, "loop_type", "Range"), n)])])

(* checker.c:238-313: the first pass of check_for, up to the loop type.    *)
check_for_iterable(c0, n) ==
    Bind([c1 \in {CHECK_expression(c0, n, "iter")} |->
    IF Bails(c1) THEN c1 ELSE
    Bind([c2 \in {resolve_expression_type(c1, c1.ast[n].iter)} |->
    Bind([iter_type \in {c2.ast[c2.ast[n].iter].type} |->
    IF iter_type = NULLT THEN YIELD(c2) ELSE
    Bind([c3 \in {SetField(c2, n, "loop_type", "Invalid")} |->
    Bind([var \in {c3.ast[n].var} |->
    LET elem(kind) ==
            check_for_classified(
                SetField(SetType(c3, var, IF c3.ast[n].by_pointer
                                          THEN type_make_pointer(iter_type[2])
                                          ELSE iter_type[2]),
                         n, "loop_type", kind), n) IN
    IF types_are_compatible(iter_type, T_i32)
    THEN \* 250-262
         IF c3.ast[n].by_pointer THEN ERROR(c3) ELSE
         Bind([low_0 \in {NewId(c3)} |->
         Bind([c4 \in {make_range_literal(make_int_literal(c3, 0), low_0, c3.ast[n].iter)} |->
         Bind([k \in {SeenByCHECK(Call("check_range_literal", c4, NewId(c4) - 1))} |->
         IF Bails(k) THEN k ELSE
         check_for_classified(
             SetField(AddFlag(SetType(SetField(k, n, "iter", k.ret), var,
                                      type_lookup_member_by_idx(k.brtt, 0).type),
                              var, "Cannot_Take_Addr"),
                      n, "loop_type", "Range"), n)])])])
    ELSE IF types_are_compatible(iter_type, c3.brtt)
    THEN \* 264-274
         IF c3.ast[n].by_pointer THEN ERROR(c3) ELSE
         check_for_classified(
             SetField(AddFlag(SetType(c3, var, type_lookup_member_by_idx(c3.brtt, 0).type),
                              var, "Cannot_Take_Addr"),
                      n, "loop_type", "Range"), n)
    ELSE IF TKind(iter_type) = "Array" THEN elem("Array")
    ELSE IF TKind(iter_type) = "Slice" THEN elem("Slice")
    ELSE IF TKind(iter_type) = "VarArgs"
    THEN \* 289-298
         IF c3.ast[n].by_pointer THEN ERROR(c3)
         ELSE check_for_classified(
                  SetField(SetType(c3, var, iter_type[2]), n, "loop_type", "Slice"), n)
    ELSE IF TKind(iter_type) = "DynArray" THEN elem("DynArr")
    ELSE IF type_struct_constructed_from_poly_struct(iter_type)
    THEN \* 305-313
         IF c3.ast[n].by_pointer THEN ERROR(c3)
         ELSE check_for_classified(
                  SetField(SetType(c3, var, iter_type[3]), n, "loop_type", "Iterator"), n)
    ELSE check_for_classified(c3, n)])])])])])

(* A loop that leaves inside_for_iterator as its body had it.              *)
keep_inside_for_iterator(k, old, n) ==
    Log(k, "after", "check_for", n, IF k.ifi THEN 1 ELSE 0)

(* checker.c:337: inside_for_iterator = old_inside_for_iterator.           *)
restore_inside_for_iterator(k, old, n) ==
    Log([k EXCEPT !.ifi = old], "after", "check_for", n, IF old THEN 1 ELSE 0)

(* checker.c:234-342 *)
check_for(c0, n) ==
    Bind([c1 \in {IF HasFlag(c0, n, "Has_Been_Checked") THEN Return(c0, Check_Success)
                  ELSE check_for_iterable(c0, n)} |->
    IF c1.cs # Check_Success THEN c1 ELSE
    \* 326-341
    Bind([old_inside_for_iterator \in {c1.ifi} |->
    Bind([c2 \in {[c1 EXCEPT !.ifi = type_struct_constructed_from_poly_struct(
                                         c1.ast[c1.ast[n].iter].type)]} |->
    Bind([c3 \in {Log(c2, "body", "check_for", n, IF c2.ifi THEN 1 ELSE 0)} |->
    Bind([k \in {restore_inside_for_iterator(Call("check_block", c3, c3.ast[n].stmt),
                                             old_inside_for_iterator, n)} |->
    IF k.cs > Check_Errors_Start THEN k ELSE Return(k, Check_Success)])])])])])

(* checker.c:2042-2102, for the statement kinds of the input programs      *)
(* (no if, while or defer statements).                                     *)
check_statement(c, n) ==
    Bind([c0 \in {[c EXCEPT !.lvl = STATEMENT_LEVEL]} |->
    LET ignored(k) == [k EXCEPT !.ast[k.ret].flags = @ \cup {"Expr_Ignored"}] IN
    LET viaCHECK(k) == IF Bails(k) THEN k ELSE Return(ignored(k), Check_Success) IN
    CASE c0.ast[n].kind = "Jump" -> ReturnSlot(c0, Check_Success, n)
          [] c0.ast[n].kind = "Block" -> [Call("check_block", c0, n) EXCEPT !.ret = n]
          [] c0.ast[n].kind = "Return" -> Call("check_return", c0, n)
          [] c0.ast[n].kind = "Switch" -> Call("check_switch", c0, n)
          [] c0.ast[n].kind = "For" -> [Call("check_for", c0, n) EXCEPT !.ret = n]
          [] c0.ast[n].kind = "Directive_Remove" -> Call("check_remove_directive", c0, n)
          [] c0.ast[n].kind = "Call" -> viaCHECK(SeenByCHECK(Call("check_call", c0, n)))
          [] c0.ast[n].kind = "Binary_Op" -> viaCHECK(SeenByCHECK(Call("check_binaryop", c0, n)))
          [] c0.ast[n].kind = "Local" ->
               \* 2071-2090
               Bind([l1 \in {fill_in_type(c0, n)} |->
               IF l1.ast[n].type_node # NoNode /\ l1.ast[n].type = NULLT
               THEN Bind([l2 \in {CHECK_type(l1, n, "type_node")} |->
                    IF Bails(l2) THEN [l2 EXCEPT !.ret = n]
                    ELSE IF ~node_is_type(l2, l2.ast[n].type_node)
                    THEN [ERROR(l2) EXCEPT !.ret = n]
                    ELSE [YIELD(l2) EXCEPT !.ret = n]])
               ELSE
               Bind([nx \in {l1.ast[n].next} |->
               ReturnSlot(IF nx # NoNode /\ l1.ast[nx].kind = "Binary_Op"
                             /\ l1.ast[nx].operation = "Assign" /\ l1.ast[nx].left = n
                          THEN AddFlag(l1, n, "Decl_Followed_By_Init") ELSE l1,
                          Check_Success, n)])])
          [] OTHER -> viaCHECK(SeenByCHECK(Call("check_expression", c0, n)))])

RECURSIVE check_block_loop(_, _, _)
(* A block loop that forgets to count the statement it has checked.      *)
check_block_loop_no_count(c, n, pos) ==
    IF pos > Len(c.ast[n].body) THEN Return([c EXCEPT !.ast[n].stopped_at = -1], Check_Success)
    ELSE
    Bind([c1 \in {Log(c, "stmt", "check_block", n, pos - 1)} |->
        Bind([k \in {Call("check_statement", c1, c1.ast[n].body[pos])} |->
        Bind([c2 \in {SetBody(k, n, pos, k.ret)} |->
        IF c2.cs = Check_Success
        THEN check_block_loop(c2, n, pos + 1)
        ELSE IF c2.cs = Check_Return_To_Symres
        THEN [c2 EXCEPT !.ast[n].statement_idx = 0, !.ast[n].stopped_at = -1]
        ELSE Log([c2 EXCEPT !.ast[n].stopped_at = pos - 1],
                 "stop", "check_block", n, c2.ast[n].statement_idx)])])])

(* A block loop that keeps its position when a statement returns          *)
(* Return_To_Symres.                                                       *)
check_block_loop_no_reset(c, n, pos) ==
    IF pos > Len(c.ast[n].body) THEN Return([c EXCEPT !.ast[n].stopped_at = -1], Check_Success)
    ELSE
    Bind([c1 \in {Log(c, "stmt", "check_block", n, pos - 1)} |->
        Bind([k \in {Call("check_statement", c1, c1.ast[n].body[pos])} |->
        Bind([c2 \in {SetBody(k, n, pos, k.ret)} |->
        IF c2.cs = Check_Success
        THEN check_block_loop([c2 EXCEPT !.ast[n].statement_idx = @ + 1], n, pos + 1)
        ELSE IF c2.cs = Check_Return_To_Symres
        THEN [c2 EXCEPT !.ast[n].stopped_at = -1]
        ELSE Log([c2 EXCEPT !.ast[n].stopped_at = pos - 1],
                 "stop", "check_block", n, c2.ast[n].statement_idx)])])])

(* checker.c:2123-2137: the loop of check_block, start at statement pos.   *)
check_block_loop(c, n, pos) ==
    IF pos > Len(c.ast[n].body) THEN Return([c EXCEPT !.ast[n].stopped_at = -1], Check_Success)
    ELSE
    Bind([c1 \in {Log(c, "stmt", "check_block", n, pos - 1)} |->
        Bind([k \in {Call("check_statement", c1, c1.ast[n].body[pos])} |->
        Bind([c2 \in {SetBody(k, n, pos, k.ret)} |->
        IF c2.cs = Check_Success
        THEN check_block_loop([c2 EXCEPT !.ast[n].statement_idx = @ + 1], n, pos + 1)
        ELSE IF c2.cs = Check_Return_To_Symres
        THEN [c2 EXCEPT !.ast[n].statement_idx = 0, !.ast[n].stopped_at = -1]
        ELSE Log([c2 EXCEPT !.ast[n].stopped_at = pos - 1],
                 "stop", "check_block", n, c2.ast[n].statement_idx)])])])
(* checker.c:2113-2140.  stopped_at is a ghost field: the number of        *)
(* statements in front of the one the previous call stopped on.            *)
check_block(c, n) ==
    Bind([c0 \in {Log(c, "enter", "check_block", n, c.ast[n].stopped_at)} |->
        (check_block_loop(c0, n, c0.ast[n].statement_idx + 1))])


make_bool_literal(c, b) ==
    Alloc(c, Mk([kind |-> "NumLit", type |-> T_bool, value |-> IF b THEN 1 ELSE 0,
                 flags |-> {"Comptime"}]))

(* checker.c:1786-1961, for the expression kinds of the input programs.    *)
check_expression(c0, n) ==
    IF n <= NoNode THEN [Crash(c0) EXCEPT !.ret = n]
    ELSE
    LET as_status(k) == [k EXCEPT !.ret = n] IN
    \* 1788-1806
          IF node_is_type(c0, n) THEN
               Bind([t1 \in {SeenByCHECK(Call("check_type", c0, n))} |->
               IF Bails(t1) THEN [t1 EXCEPT !.ret = n]
               ELSE IF type_build_from_ast(t1, n) = NULLT THEN [YIELD(t1) EXCEPT !.ret = n]
               ELSE ReturnSlot(SetType(t1, n, T_Type_Index), Check_Success, n)])
          ELSE IF c0.ast[n].kind \in {"Polymorphic_Proc", "Macro"} THEN ReturnSlot(c0, Check_Success, n)
          ELSE IF c0.ast[n].kind = "Directive_Init" THEN [ERROR(c0) EXCEPT !.ret = n]
          ELSE
          \* 1822-1823
          Bind([c1 \in {[fill_in_type(c0, n) EXCEPT !.lvl = EXPRESSION_LEVEL]} |->
          CASE c0.ast[n].kind = "Binary_Op" -> Call("check_binaryop", c1, n)
            [] c0.ast[n].kind = "Unary_Op" -> Call("check_unaryop", c1, n)
            [] c0.ast[n].kind \in {"Call", "Intrinsic_Call"} -> Call("check_call", c1, n)
            [] c0.ast[n].kind = "Argument" -> as_status(Call("check_argument", c1, n))
            [] c0.ast[n].kind = "Block" -> as_status(Call("check_block", c1, n))
            [] c0.ast[n].kind = "Symbol" -> [YIELD(c1) EXCEPT !.ret = n]
            [] c0.ast[n].kind = "Param" ->
                 IF c1.ast[n].type = NULLT THEN [YIELD(c1) EXCEPT !.ret = n]
                 ELSE ReturnSlot(c1, Check_Success, n)
            [] c0.ast[n].kind = "Local" -> ReturnSlot(c1, Check_Success, n)
            [] c0.ast[n].kind = "Address_Of" -> Call("check_address_of", c1, n)
            [] c0.ast[n].kind = "Dereference" -> as_status(Call("check_dereference", c1, n))
            [] c0.ast[n].kind = "Subscript" -> Call("check_subscript", c1, n)
            [] c0.ast[n].kind = "Field_Access" -> Call("check_field_access", c1, n)
            [] c0.ast[n].kind = "Range_Literal" -> Call("check_range_literal", c1, n)
            [] c0.ast[n].kind = "Method_Call" -> Call("check_method_call", c1, n)
            [] c0.ast[n].kind = "Global" ->
                 IF c1.ast[n].type = NULLT
                 THEN ReturnSlot(onyx_report_error(c1), Check_Error, n)
                 ELSE ReturnSlot(c1, Check_Success, n)
            [] c0.ast[n].kind = "NumLit" -> ReturnSlot(c1, Check_Success, n)
            [] c0.ast[n].kind = "Array_Literal" -> as_status(Call("check_array_literal", c1, n))
            [] c0.ast[n].kind = "Function" ->
                 IF c1.ast[n].type = NULLT THEN [YIELD(c1) EXCEPT !.ret = n]
                 ELSE ReturnSlot([c1 EXCEPT !.ast[n].flags = @ \cup {"Function_Used"}],
                                 Check_Success, n)
            [] c0.ast[n].kind = "Directive_Defined" ->
                 Bind([dd \in {make_bool_literal(c1, c1.ast[n].value = 1)} |->
                 ReturnSlot(fill_in_type(dd, NewId(c1)), Check_Success, NewId(c1))])
            [] c0.ast[n].kind = "Alias" ->
                 Bind([al \in {CHECK_expression(c1, n, "alias")} |->
                 IF Bails(al) THEN [al EXCEPT !.ret = n]
                 ELSE ReturnSlot(
                        SetType([al EXCEPT !.ast[n].flags =
                                    @ \cup (al.ast[al.ast[n].alias].flags \cap {"Comptime"})],
                                n, al.ast[al.ast[n].alias].type),
                        Check_Success, n)])
            [] c0.ast[n].kind = "Directive_Insert" -> Call("check_insert_directive", c1, n)
            [] c0.ast[n].kind = "Code_Block" ->
                 ReturnSlot(fill_in_type(AddFlag(c1, n, "Comptime"), n), Check_Success, n)
            [] c0.ast[n].kind = "Do_Block" -> Call("check_do_block", c1, n)
            [] c0.ast[n].kind = "Call_Site" ->
                 ReturnSlot(SetField(c1, n, "type_node", c1.env.builtin_callsite_type),
                            Check_Success, n)
            [] c0.ast[n].kind = "Memres" ->
                 IF c1.ast[n].type = NULLT THEN [YIELD(c1) EXCEPT !.ret = n]
                 ELSE ReturnSlot(c1, Check_Success, n)
            [] c0.ast[n].kind \in {"StrLit", "Overloaded_Function", "Enum_Value", "Package", "Error",
                         "Constraint_Sentinel", "Switch_Case", "Zero_Value"} ->
                 ReturnSlot(c1, Check_Success, n)
            [] OTHER -> ReturnSlot(onyx_report_error(c1), Check_Error, n)])

(* checker.c:1963-1971 *)
check_global(c0, n) ==
    Bind([c1 \in {fill_in_type(c0, n)} |->
        (IF c1.ast[n].type = NULLT THEN YIELD(c1) ELSE Return(c1, Check_Success))])


-----------------------------------------------------------------------------
(* Entity-level procedures.                                                *)

(* checker.c:2142-2174 (functions of the input programs carry no tags).    *)
check_function(c0, f) ==
    IF HasFlag(c0, f, "Has_Been_Checked") THEN Return(c0, Check_Success)
        ELSE IF c0.ast[f].entity_header # 0
                /\ c0.ents[c0.ast[f].entity_header].state < Entity_State_Code_Gen
        THEN YIELD(c0) ELSE
        \* 2155-2167
        Bind([c1 \in {[c0 EXCEPT !.ifi = FALSE, !.ert = f]} |->
        Bind([c2 \in {
            IF c1.ast[f].func_body = NoNode THEN Return(c1, Check_Success) ELSE
            Bind([status \in {Call("check_block", c1, c1.ast[f].func_body)} |->
            IF status.cs = Check_Error /\ status.ast[f].generated_from /\ ~status.cd
            THEN ERROR(status)
            ELSE IF status.cs # Check_Success
            THEN Return([status EXCEPT !.ert = NoNode], status.cs)
            ELSE status])} |->
        IF c2.cs # Check_Success THEN c2 ELSE
        \* 2169-2174
        Bind([ft \in {c2.ast[f].type} |->
        Return(AddFlag(IF ft[2] = type_auto_return
                       THEN [c2 EXCEPT !.ast[f].type = T_Function(T_void, ft[3])]
                       ELSE c2, f, "Has_Been_Checked"),
               Check_Success)])])])

(* entity_heap_insert_existing *)
entity_heap_insert_existing(c, e) == [c EXCEPT !.heap = Append(@, e)]

(* checker.c:2836-2870: the constraints from the i-th on.                  *)
RECURSIVE check_constraint_context_from(_, _, _)
check_constraint_context_from(c, f, i) ==
    IF i > Len(c.ast[f].constraints)
    THEN Return(SetField(c, f, "constraints_met", TRUE), Check_Success)
    ELSE IF c.ast[f].constraint_checks[i] = "Failed"
    THEN IF c.ast[f].produce_errors
         THEN Return(onyx_report_error(onyx_report_error(onyx_report_error(c))),
                     Check_Error)
         ELSE Return(c, Check_Failed)
    ELSE IF c.ast[f].constraint_checks[i] = "Queued" THEN YIELD(c)
    ELSE check_constraint_context_from(c, f, i + 1)

(* checker.c:2874-2889: the constraints from the i-th on become entities.  *)
RECURSIVE queue_constraints(_, _, _)
queue_constraints(c, f, i) ==
    IF i > Len(c.ast[f].constraints) THEN c
    ELSE queue_constraints(
             add_entities_for_node(
                 [c EXCEPT !.ast[c.ast[f].constraints[i]].report_status = <<f, i>>,
                           !.ast[c.ast[f].constraints[i]].phase = "Cloning_Expressions"],
                 "Constraint_Check", c.ast[f].constraints[i]),
             f, i + 1)

(* A constraint context that takes every constraint for met.               *)
check_constraint_context_met(c0, f) ==
    IF c0.ast[f].constraint_checks # <<"none">>
    THEN Return(SetField(c0, f, "constraints_met", TRUE), Check_Success)
    ELSE Return(queue_constraints(
                    SetField(c0, f, "constraint_checks",
                             [i \in 1..Len(c0.ast[f].constraints) |-> "Queued"]), f, 1),
                Check_Yield_Macro)

(* A constraint context that queues its constraints on every entry.        *)
check_constraint_context_requeued(c0, f) ==
    Return(queue_constraints(
               SetField(c0, f, "constraint_checks",
                        [i \in 1..Len(c0.ast[f].constraints) |-> "Queued"]), f, 1),
           Check_Yield_Macro)

(* checker.c:2832-2891; constraint_checks is <<"none">> while it is NULL.  *)
check_constraint_context(c0, f) ==
    IF c0.ast[f].constraint_checks # <<"none">>
    THEN IF c0.ast[f].constraints_met THEN Return(c0, Check_Success)
         ELSE check_constraint_context_from(c0, f, 1)
    ELSE Return(queue_constraints(
                    SetField(c0, f, "constraint_checks",
                             [i \in 1..Len(c0.ast[f].constraints) |-> "Queued"]), f, 1),
                Check_Yield_Macro)

(* checker.c:2376-2456: the parameters from the i-th on.  The local of a   *)
(* parameter carries the default value and the vararg kind of its AstParam. *)
RECURSIVE check_function_header_params(_, _, _, _, _)
check_function_header_params(c, f, i, expect_default_param, has_had_varargs) ==
    IF i > Len(c.ast[f].params) THEN Return(c, Check_Success)
    ELSE
    Bind([local \in {c.ast[f].params[i]} |->
    Bind([va \in {c.ast[local].vararg_kind} |->
    IF expect_default_param /\ c.ast[local].default_value = NoNode THEN ERROR(c)
    \* 2384-2392: both tests ask for a second variadic parameter
    ELSE IF has_had_varargs /\ va # "Not_VA" THEN ERROR(c)
    ELSE
    Bind([cv \in {IF va = "Untyped" THEN SetType(c, local, T_VarArgs(T_rawptr)) ELSE c} |->
    IF cv.ast[local].default_value # NoNode /\ va # "Not_VA" THEN ERROR(cv) ELSE
    Bind([cd \in {IF cv.ast[local].default_value # NoNode
                  THEN CHECK_expression(cv, local, "default_value")
                  ELSE Return(cv, Check_Success)} |->
    IF cd.ast[local].default_value # NoNode /\ Bails(cd) THEN cd ELSE
    Bind([ci \in {IF /\ cd.ast[local].default_value # NoNode
                     /\ cd.ast[local].type_node = NoNode
                     /\ cd.ast[local].type = NULLT
                  THEN Bind([cr \in {resolve_expression_type(cd, cd.ast[local].default_value)} |->
                       SetType(cr, local, cr.ast[cr.ast[local].default_value].type)])
                  ELSE cd} |->
    Bind([tn \in {ci.ast[local].type_node} |->
    Bind([c1 \in {IF tn # NoNode
                  THEN CHECK_type([ci EXCEPT !.ast[tn].flags =
                                      @ \cup (ci.ast[f].flags \cap {"Header_Check_No_Error"})],
                                  local, "type_node")
                  ELSE Return(ci, Check_Success)} |->
    IF tn # NoNode /\ Bails(c1) THEN c1 ELSE
    Bind([c2 \in {fill_in_type(c1, local)} |->
    Bind([t \in {c2.ast[local].type} |->
    IF t = NULLT THEN YIELD(c2)
    ELSE IF t = T_failure THEN Return(c2, Check_Failed)
    ELSE IF type_is_compound(t) THEN ERROR(c2)
    ELSE IF TKind(t) # "Array" /\ type_size_of(t) = 0 THEN ERROR(c2)
    ELSE check_function_header_params(
             c2, f, i + 1,
             expect_default_param \/ c2.ast[local].default_value # NoNode,
             has_had_varargs \/ va # "Not_VA")])])])])])])])])])

type_build_function_type(c, f) ==
    Bind([rt \in {c.ast[f].return_type} |->
    IF rt = NoNode THEN T_Function(T_void, Len(c.ast[f].params))
    ELSE IF type_build_from_ast(c, rt) = NULLT THEN NULLT
    ELSE T_Function(type_build_from_ast(c, rt), Len(c.ast[f].params))])

(* checker.c:2377-2463: the parameters, the return type and the function   *)
(* type.                                                                   *)
check_function_header_types(c0, f) ==
        Bind([p1 \in {check_function_header_params(c0, f, 1, FALSE, FALSE)} |->
        IF p1.cs # Check_Success THEN p1 ELSE
        \* 2457-2463
        Bind([p2 \in {IF p1.ast[f].return_type # NoNode
                      THEN CHECK_type(p1, f, "return_type") ELSE p1} |->
        IF Bails(p2) THEN p2 ELSE
        Bind([p3 \in {SetType(p2, f, type_build_function_type(p2, f))} |->
        IF p3.ast[f].type = NULLT THEN YIELD(p3)
        ELSE Return(p3, Check_Success)])])])

(* A header that does not wait for its constraints.                        *)
check_function_header_unconstrained(c0, f) == check_function_header_types(c0, f)

(* checker.c:2361-2464 *)
check_function_header(c0, f) ==
    IF c0.ast[f].has_constraints /\ ~c0.ast[f].constraints_met
        THEN \* 2367-2374
             Bind([k1 \in {SetField(c0, f, "produce_errors",
                                    "Header_Check_No_Error" \notin c0.ast[f].flags)} |->
             Bind([k2 \in {SeenByCHECK(Call("check_constraint_context", k1, f))} |->
             IF Bails(k2) THEN k2 ELSE Return(k2, Check_Return_To_Symres)])])
        ELSE check_function_header_types(c0, f)

(* checker.c:2346-2359 *)
check_temp_function_header(c0, f) ==
    Bind([h \in {Call("check_function_header", c0, f)} |->
    (IF h.cs = Check_Error
          THEN Return(IF "Header_Check_No_Error" \in h.ast[f].flags
                      THEN onyx_clear_errors(h) ELSE h, Check_Failed)
          ELSE IF h.cs # Check_Success THEN h
          ELSE Return(h, Check_Complete))])


(* checker.c:2743-2750: ast_clone of every expression of the interface and *)
(* of its expected type expression (NULL stays NULL), from the i-th on.    *)
RECURSIVE clone_exprs(_, _, _, _)
clone_exprs(c, k, itf, i) ==
    IF i > Len(c.ast[itf].values) THEN c
    ELSE
    Bind([c1 \in {[ast_clone(c, c.ast[itf].values[i]) EXCEPT
                      !.ast[k].values = Append(@, NewId(c))]} |->
    Bind([x \in {IF i \in DOMAIN c.ast[itf].expected THEN c.ast[itf].expected[i]
                 ELSE NoNode} |->
    clone_exprs(IF x = NoNode
                THEN [c1 EXCEPT !.ast[k].expected = Append(@, NoNode)]
                ELSE [ast_clone(c1, x) EXCEPT !.ast[k].expected = Append(@, NewId(c1))],
                k, itf, i + 1)])])

(* *constraint->report_status = st *)
SetReportStatus(c, k, st) ==
    [c EXCEPT !.ast[c.ast[k].report_status[1]].constraint_checks[c.ast[k].report_status[2]] = st]

(* A constraint that is complete without checking or reporting anything.   *)
check_constraint_exprs_unreported(c, k, i) == Return(c, Check_Complete)

(* checker.c:2779-2825: the expressions from the i-th on.                  *)
RECURSIVE check_constraint_exprs(_, _, _)
check_constraint_exprs(c, k, i) ==
    IF i > Len(c.ast[k].values)
    THEN Return(SetReportStatus(onyx_clear_errors(c), k, "Success"), Check_Complete)
    ELSE
    Bind([r \in {Call("check_expression", c, c.ast[k].values[i])} |->
    Bind([c1 \in {SetValue(r, k, i, r.ret)} |->
    Bind([cs \in {c1.cs} |->
    Bind([invert_condition \in {i \in c1.ast[k].inverted} |->
    LET constraint_error(cx) ==
            Return(SetReportStatus(onyx_clear_errors(cx), k, "Failed"), Check_Failed)
        next(cx) == check_constraint_exprs([cx EXCEPT !.ast[k].expr_idx = @ + 1], k, i + 1)
    IN
    IF cs = Check_Return_To_Symres \/ cs = Check_Yield_Macro THEN c1
    ELSE IF cs = Check_Error /\ ~invert_condition THEN constraint_error(c1)
    ELSE IF cs = Check_Success /\ invert_condition THEN constraint_error(c1)
    ELSE IF c1.ast[k].expected[i] = NoNode THEN next(c1)
    ELSE \* 2795-2810
    Bind([t0 \in {Call("check_type", c1, c1.ast[k].expected[i])} |->
    Bind([t1 \in {[t0 EXCEPT !.ast[k].expected[i] = t0.ret]} |->
    IF t1.cs = Check_Return_To_Symres \/ t1.cs = Check_Yield_Macro THEN t1 ELSE
    Bind([expected_type \in {type_build_from_ast(t1, t1.ast[k].expected[i])} |->
    IF expected_type = NULLT THEN YIELD(t1) ELSE
    Bind([tm \in {unify_node_and_type(t1, t1.ast[k].values[i], expected_type)} |->
    IF tm = "YIELD" THEN YIELD(t1)
    ELSE IF tm = "FAILED" /\ ~invert_condition THEN constraint_error(t1)
    ELSE next(t1)])])])])])])])])

(* checker.c:2729-2830 *)
check_constraint(c0, k) ==
    Bind([itf \in {c0.ast[k].interface} |->
    (IF c0.ast[k].phase = "Cloning_Expressions"
          THEN IF c0.ast[itf].kind = "Symbol" THEN Return(c0, Check_Return_To_Symres)
               ELSE IF c0.ast[itf].kind # "Interface" THEN ERROR(c0)
               ELSE Return(SetField(clone_exprs(
                                        SetField(SetField(c0, k, "values", <<>>),
                                                 k, "expected", <<>>),
                                        k, itf, 1),
                                    k, "phase", "Checking_Expressions"),
                           Check_Return_To_Symres)
          ELSE IF c0.ast[k].phase = "Checking_Expressions"
          THEN check_constraint_exprs(c0, k, c0.ast[k].expr_idx + 1)
          ELSE Return(c0, Check_Success))])

(* find_polymorphic_sln: what the solver answers for the i-th polymorphic  *)
(* variable right now.  An answer may depend on a type that is built later *)
(* or on the solution of another variable.                                 *)
find_polymorphic_sln(c, q, i) ==
    CASE c.env.sln[i] = "LATE" ->
             IF c.env.buildable \subseteq c.env.built THEN "SUCCESS" ELSE "YIELD"
      [] c.env.sln[i] = "BLOCKED" ->
             IF c.env.buildable \subseteq c.env.built THEN "FAILED" ELSE "SPECIAL"
      [] c.env.sln[i] = "DEPENDS" ->
             IF \E j \in DOMAIN c.ast[q].slns : c.ast[q].slns[j] # i
             THEN "SUCCESS" ELSE "YIELD"
      [] OTHER -> c.env.sln[i]

(* A query that does not look for the variable in slns.                    *)
poly_sln_not_looked_up(c, q, i) == FALSE

(* checker.c:2905-2909: slns holds a solution for the i-th variable.       *)
poly_sln_is_recorded(c, q, i) == \E j \in DOMAIN c.ast[q].slns : c.ast[q].slns[j] = i

(* A query that goes on past an open variable only when another variable   *)
(* was solved in this pass.                                                *)
poly_pass_goes_on_if_solved(c, q, solved_something) == solved_something

(* checker.c:2930: the pass goes on past a variable that yields or fails.  *)
poly_pass_goes_on(c, q, solved_something) ==
    c.ast[q].successful_symres \/ solved_something

(* checker.c:2903-2959: the poly params from the i-th on.                  *)
RECURSIVE check_polyquery_params(_, _, _, _, _)
check_polyquery_params(c, q, i, solved_something, solved_count) ==
    IF i > c.ast[q].poly_params
    THEN IF solved_count # c.ast[q].poly_params
         THEN IF solved_something \/ c.ast[q].successful_symres
              THEN Return(c, Check_Return_To_Symres)
              ELSE Return(c, Check_Failed)
         ELSE Return(c, Check_Complete)
    ELSE IF poly_sln_is_recorded(c, q, i)
    THEN check_polyquery_params(c, q, i + 1, solved_something, solved_count + 1)
    ELSE
    LET poly_var_solved(cx) ==
            check_polyquery_params(Log([cx EXCEPT !.ast[q].slns = Append(@, i)],
                                       "solved", "check_polyquery", q, i),
                                   q, i + 1, TRUE, solved_count + 1)
    IN
    IF i \in c.ast[q].known_slns THEN poly_var_solved(c) ELSE
    Bind([result \in {find_polymorphic_sln(c, q, i)} |->
    Bind([c1 \in {Log(c, "open", result, q, i)} |->
    IF result = "SUCCESS" THEN poly_var_solved(c)
    ELSE IF result = "SPECIAL" THEN Return(c, Check_Yield_Macro)
    ELSE IF poly_pass_goes_on(c1, q, solved_something)
    THEN check_polyquery_params(c1, q, i + 1, solved_something, solved_count)
    ELSE Return(IF c1.ast[q].error_on_fail \/ c1.cd THEN onyx_report_error(c1) ELSE c1,
                Check_Failed)])])

(* checker.c:2893-2960 *)
check_polyquery(c0, q) ==
    Bind([header_check \in {Call("check_temp_function_header", c0,
                                 c0.ast[q].function_header)} |->
    (IF header_check.cs = Check_Return_To_Symres THEN header_check
          ELSE check_polyquery_params(header_check, q, 1, FALSE, 0))])

(* A static if that always takes its true branch.                          *)
static_if_always_true(c, n) == TRUE

(* static_if_resolution: the value of the folded condition.                *)
static_if_resolution(c, n) == c.ast[c.ast[n].cond].value = 1

RECURSIVE insert_entities(_, _)
insert_entities(c, es) ==
    IF es = <<>> THEN c
    ELSE insert_entities(entity_heap_insert_existing(c, Head(es)), Tail(es))

(* checker.c:2610-2647 *)
check_static_if(c0, n) ==
    Bind([r \in {Call("check_expression", [c0 EXCEPT !.etmbk = TRUE], c0.ast[n].cond)} |->
    Bind([c1 \in {[SetField(r, n, "cond", r.ret) EXCEPT !.etmbk = FALSE]} |->
    Bind([result \in {c1.cs} |->
    Bind([cond \in {c1.ast[n].cond} |->
    (IF result = Check_Yield_Macro THEN Return(c1, Check_Yield_Macro)
          ELSE IF result > Check_Errors_Start THEN ERROR(c1)
          ELSE IF "Comptime" \notin c1.ast[cond].flags THEN ERROR(c1)
          ELSE IF ~type_is_bool(c1.ast[cond].type) THEN ERROR(c1)
          ELSE \* 2624-2646
               Bind([c2 \in {AddFlag(c1, n, "Static_If_Resolved")} |->
               Return(insert_entities(c2, IF static_if_resolution(c2, n)
                                          THEN c2.ast[n].true_entities
                                          ELSE c2.ast[n].false_entities),
                      Check_Complete)]))])])])])


(* An #init directive that does not wait for its dependencies.             *)
RECURSIVE check_init_dependencies_unordered(_, _, _)
check_init_dependencies_unordered(c, n, i) ==
    IF i > Len(c.ast[n].deps) THEN Return(c, Check_Success)
    ELSE Bind([d \in {strip_aliases(c, c.ast[n].deps[i])} |->
             IF c.ast[d].kind # "Directive_Init" THEN ERROR(c)
             ELSE check_init_dependencies_unordered(c, n, i + 1)])

(* checker.c:2682-2697: the dependencies of an #init from the i-th on.     *)
RECURSIVE check_init_dependencies(_, _, _)
check_init_dependencies(c, n, i) ==
    IF i > Len(c.ast[n].deps) THEN Return(c, Check_Success)
    ELSE Bind([d \in {strip_aliases(c, c.ast[n].deps[i])} |->
             IF c.ast[d].kind # "Directive_Init" THEN ERROR(c)
             ELSE IF EntityState(c, d) # Entity_State_Finalized THEN YIELD(c)
             ELSE check_init_dependencies(c, n, i + 1)])

(* checker.c:2649-2719, for #init directives (the input programs hold no   *)
(* #export or #library directive).                                         *)
check_process_directive(c0, n) ==
    IF c0.ast[n].kind # "Directive_Init" THEN Return(c0, Check_Success) ELSE
        \* 2666-2678
        Bind([c1 \in {
            IF HasFlag(c0, n, "Has_Been_Checked") THEN Return(c0, Check_Success) ELSE
            Bind([k1 \in {CHECK_expression(c0, n, "init_proc")} |->
            IF Bails(k1) THEN k1 ELSE
            Bind([ip \in {k1.ast[n].init_proc} |->
            IF k1.ast[ip].kind # "Function" THEN ERROR(k1)
            ELSE IF k1.ast[ip].type[3] # 0 THEN ERROR(k1)
            ELSE Return(k1, Check_Success)])])} |->
        IF Bails(c1) THEN c1 ELSE
        \* 2680-2700
        Bind([c3 \in {check_init_dependencies(AddFlag(c1, n, "Has_Been_Checked"), n, 1)} |->
        IF c3.cs # Check_Success THEN c3
        ELSE Return([c3 EXCEPT !.initp = Append(@, c3.ast[n].init_proc)],
                    Check_Complete)])])

(* checker.c:1456-1473.  expected_at_entry and expected_at_exit record     *)
(* expected_return_type at the entry and at the exit.                      *)
check_do_block(c0, n) ==
    Bind([r \in {
        Bind([ce \in {SetField(c0, n, "expected_at_entry", c0.ert)} |->
        IF HasFlag(ce, n, "Has_Been_Checked") THEN ReturnSlot(ce, Check_Success, n) ELSE
        Bind([c1 \in {fill_in_type(ce, n)} |->
        Bind([old_expected_return_type \in {c1.ert} |->
        Bind([c2 \in {SeenByCHECK(Call("check_block", [c1 EXCEPT !.ert = n],
                                       c1.ast[n].block))} |->
        IF Bails(c2) THEN [c2 EXCEPT !.ret = n] ELSE
        Bind([c3 \in {IF c2.ast[n].type = type_auto_return
                      THEN SetType(c2, n, T_void) ELSE c2} |->
        ReturnSlot(AddFlag([c3 EXCEPT !.ert = old_expected_return_type],
                           n, "Has_Been_Checked"),
                   Check_Success, n)])])])])])} |->
    SetField(r, n, "expected_at_exit", r.ert)])

(* type_struct_member_apply_use (types.c): the members of the used struct  *)
(* can be added once that struct has had its own uses applied.              *)
type_struct_member_apply_use(c, s, m) == struct_status(c, m.type) = "Uses_Done"

(* checker.c:2246-2264: the members of the struct from the i-th on.        *)
RECURSIVE check_struct_members(_, _, _)
check_struct_members(c, s, i) ==
    IF i > Len(c.ast[s].members) THEN Return(c, Check_Success)
    ELSE
    Bind([smem \in {c.ast[s].members[i]} |->
    Bind([c1 \in {IF c.ast[smem].type_node # NoNode
                  THEN CHECK_type(c, smem, "type_node")
                  ELSE Return(c, Check_Success)} |->
    IF c.ast[smem].type_node # NoNode /\ Bails(c1) THEN c1
    ELSE IF c1.ast[smem].type_node = NoNode /\ c1.ast[smem].initial_value # NoNode THEN
        Bind([c2 \in {CHECK_expression(c1, smem, "initial_value")} |->
        IF Bails(c2) THEN c2 ELSE
        Bind([c3 \in {fill_in_type(c2, c2.ast[smem].initial_value)} |->
        IF c3.ast[c3.ast[smem].initial_value].type = NULLT THEN YIELD(c3) ELSE
        Bind([c4 \in {IF c3.ast[smem].type = NULLT
                      THEN SetType(c3, smem, c3.ast[c3.ast[smem].initial_value].type)
                      ELSE c3} |->
        check_struct_members(c4, s, i + 1)])])])
    ELSE check_struct_members(c1, s, i + 1)])])

check_struct_uses_skipped(c, s, i) == Return(c, Check_Success)

(* checker.c:2274-2284: the members of the built type from the i-th on.    *)
RECURSIVE check_struct_uses(_, _, _)
check_struct_uses(c, s, i) ==
    IF i > Len(c.ast[s].memarr) THEN Return(c, Check_Success)
    ELSE
    Bind([smem \in {c.ast[s].memarr[i]} |->
    IF type_is_compound(smem.type) THEN ERROR(c)
    ELSE IF smem.used /\ ~type_struct_member_apply_use(c, s, smem) THEN YIELD(c)
    ELSE check_struct_uses(c, s, i + 1)])

(* checker.c:2210-2295, for structs without polymorphic arguments,         *)
(* constraints or a scope.  memarr holds the members of the type that      *)
(* type_build_from_ast builds for the struct.                              *)
check_struct(c0, s) ==
    IF /\ c0.ast[s].entity_defaults # 0
       /\ c0.ents[c0.ast[s].entity_defaults].state < Entity_State_Check_Types
    THEN YIELD(c0) ELSE
    Bind([c1 \in {check_struct_members(c0, s, 1)} |->
    IF Bails(c1) THEN c1
    ELSE IF type_build_from_ast(c1, s) = NULLT THEN YIELD(c1) ELSE
    Bind([c2 \in {check_struct_uses(c1, s, 1)} |->
    IF Bails(c2) THEN c2
    ELSE Return(SetField(c2, s, "sps", "Uses_Done"), Check_Success)])])

(* A call of the check procedure named p on node n.                        *)
Call(p, c, n) ==
    Exit(CASE p = "check_type" -> check_type(Enter(c), n)
      [] p = "check_unaryop" -> check_unaryop(Enter(c), n)
      [] p = "check_array_literal" -> check_array_literal(Enter(c), n)
      [] p = "check_dereference" -> check_dereference(Enter(c), n)
      [] p = "check_field_access" -> check_field_access(Enter(c), n)
      [] p = "check_binaryop_compare" -> check_binaryop_compare(Enter(c), n)
      [] p = "check_binaryop_bool" -> check_binaryop_bool(Enter(c), n)
      [] p = "check_binaryop_assignment" -> check_binaryop_assignment(Enter(c), n)
      [] p = "check_binaryop" -> check_binaryop(Enter(c), n)
      [] p = "check_subscript" -> check_subscript(Enter(c), n)
      [] p = "check_address_of" -> check_address_of(Enter(c), n)
      [] p = "check_argument" -> check_argument(Enter(c), n)
      [] p = "check_arguments" -> check_arguments(Enter(c), n)
      [] p = "check_resolve_callee" -> check_resolve_callee(Enter(c), n)
      [] p = "check_call" -> check_call(Enter(c), n)
      [] p = "check_insert_directive" -> check_insert_directive(Enter(c), n)
      [] p = "check_remove_directive" -> check_remove_directive(Enter(c), n)
      [] p = "check_statement" -> check_statement(Enter(c), n)
      [] p = "check_return" -> check_return(Enter(c), n)
      [] p = "check_method_call" -> check_method_call(Enter(c), n)
      [] p = "check_for" -> check_for(Enter(c), n)
      [] p = "check_switch" -> check_switch(Enter(c), n)
      [] p = "check_range_literal" -> check_range_literal(Enter(c), n)
      [] p = "check_block" -> check_block(Enter(c), n)
      [] p = "check_expression" -> check_expression(Enter(c), n)
      [] p = "check_global" -> check_global(Enter(c), n)
      [] p = "check_struct" -> check_struct(Enter(c), n)
      [] p = "check_do_block" -> check_do_block(Enter(c), n)
      [] p = "check_function" -> check_function(Enter(c), n)
      [] p = "check_constraint_context" -> check_constraint_context(Enter(c), n)
      [] p = "check_function_header" -> check_function_header(Enter(c), n)
      [] p = "check_temp_function_header" -> check_temp_function_header(Enter(c), n)
      [] p = "check_constraint" -> check_constraint(Enter(c), n)
      [] p = "check_polyquery" -> check_polyquery(Enter(c), n)
      [] p = "check_static_if" -> check_static_if(Enter(c), n)
      [] p = "check_process_directive" -> check_process_directive(Enter(c), n),
         p, n)

(* checker.c:3003-3013: the status of the check becomes the entity's state. *)
entity_after_check_error_fails(ent, cs) ==
    CASE cs = Check_Yield_Macro -> [ent EXCEPT !.macro_attempts = @ + 1]
      [] cs = Check_Success ->
           [ent EXCEPT !.state = Entity_State_Code_Gen, !.macro_attempts = 0, !.micro_attempts = 0]
      [] cs = Check_Complete ->
           [ent EXCEPT !.state = Entity_State_Finalized, !.macro_attempts = 0, !.micro_attempts = 0]
      [] cs = Check_Return_To_Symres ->
           [ent EXCEPT !.state = Entity_State_Resolve_Symbols,
                       !.macro_attempts = 0, !.micro_attempts = 0]
      [] cs \in {Check_Failed, Check_Error} ->
           [ent EXCEPT !.state = Entity_State_Failed, !.macro_attempts = 0, !.micro_attempts = 0]
      [] OTHER -> ent
entity_after_check_keeps_attempts(ent, cs) ==
    CASE cs = Check_Yield_Macro -> [ent EXCEPT !.macro_attempts = @ + 1]
      [] cs = Check_Success -> [ent EXCEPT !.state = Entity_State_Code_Gen]
      [] cs = Check_Complete -> [ent EXCEPT !.state = Entity_State_Finalized]
      [] cs = Check_Return_To_Symres -> [ent EXCEPT !.state = Entity_State_Resolve_Symbols]
      [] cs = Check_Failed -> [ent EXCEPT !.state = Entity_State_Failed]
      [] OTHER -> ent
entity_after_check(ent, cs) ==
    CASE cs = Check_Yield_Macro -> [ent EXCEPT !.macro_attempts = @ + 1]
      [] cs = Check_Success ->
           [ent EXCEPT !.state = Entity_State_Code_Gen, !.macro_attempts = 0, !.micro_attempts = 0]
      [] cs = Check_Complete ->
           [ent EXCEPT !.state = Entity_State_Finalized, !.macro_attempts = 0, !.micro_attempts = 0]
      [] cs = Check_Return_To_Symres ->
           [ent EXCEPT !.state = Entity_State_Resolve_Symbols,
                       !.macro_attempts = 0, !.micro_attempts = 0]
      [] cs = Check_Failed ->
           [ent EXCEPT !.state = Entity_State_Failed, !.macro_attempts = 0, !.micro_attempts = 0]
      [] OTHER -> ent

(* checker.c:2965-3001: the check procedure of an entity type.             *)
check_procedure_of(type, kind) ==
    CASE type = "Function_Header" -> "check_function_header"
      [] type = "Temp_Function_Header" -> "check_temp_function_header"
      [] type = "Function" -> "check_function"
      [] type = "Global" -> "check_global"
      [] type = "Static_If" -> "check_static_if"
      [] type = "Constraint_Check" -> "check_constraint"
      [] type = "Polymorph_Query" -> "check_polyquery"
      [] type = "Process_Directive" -> "check_process_directive"
      [] type = "Expression" -> "check_expression"
      [] type = "Type_Alias" -> IF kind = "Struct_Type" THEN "check_struct" ELSE "check_type"
      [] OTHER -> "default"

(* checker.c:2962-3014.  The entity's check runs at depth 1; its status    *)
(* is logged as the "entity" event.                                        *)
check_entity(c, e) ==
    Bind([r0 \in {IF check_procedure_of(c.ents[e].type, c.ast[c.ents[e].node].kind) = "default"
                  THEN [c EXCEPT !.cs = Check_Success, !.depth = 0, !.tr = <<>>,
                                 !.ret = c.ents[e].node]
                  ELSE Call(check_procedure_of(c.ents[e].type, c.ast[c.ents[e].node].kind),
                            [c EXCEPT !.cs = Check_Success, !.depth = 0, !.tr = <<>>,
                                      !.ret = c.ents[e].node],
                            c.ents[e].node)} |->
    Bind([r1 \in {IF check_procedure_of(c.ents[e].type, c.ast[c.ents[e].node].kind) \in {"check_expression", "check_type"}
                  THEN [r0 EXCEPT !.ents[e].node = r0.ret] ELSE r0} |->
    Bind([r \in {IF check_procedure_of(c.ents[e].type, c.ast[c.ents[e].node].kind) = "check_expression"
                 THEN resolve_expression_type(r1, r1.ents[e].node) ELSE r1} |->
    [Log(r, "entity", c.ents[e].type, e, r.cs) EXCEPT !.ents[e] = entity_after_check(@, r.cs)]])])])


-----------------------------------------------------------------------------
(* The input programs.                                                     *)

T_Code == <<"Basic", "code">>
OvlOps == {"call", "Subscript", "Subscript_Equals", "Ptr_Subscript", "Add", "Minus", "Multiply", "Equal",
           "Less", "Bool_And", "Assign", "Assign_Add", "None",
           "Divide", "Modulus", "Not_Equal", "Less_Equal", "Greater", "Greater_Equal",
           "And", "Or", "Xor", "Shl", "Shr", "Sar", "Bool_Or"}
Answers == {"none", "nomatch", "yield", "match"}

DefaultEnv ==
    [ built |-> {}, buildable |-> {}, uses_done |-> {"S", "V"}, structs_pending |-> {},
      ovl |-> [op \in OvlOps |-> "none"], ovl_fn |-> NoNode,
      macro |-> "null", macro_fn |-> NoNode, poly |-> "null", poly_fn |-> NoNode,
      tm |-> "SUCCESS", sln |-> <<"SUCCESS", "SUCCESS">>, code_type |-> T_Code,
      builtin_range_type |-> NoNode, range_step |-> NoNode, uninit |-> "read",
      builtin_callsite_type |-> NoNode ]
WithEnv(o) == [f \in DOMAIN DefaultEnv |-> IF f \in DOMAIN o THEN o[f] ELSE DefaultEnv[f]]

Ent(type, node) ==
    [type |-> type, node |-> node, state |-> Entity_State_Check_Types,
     macro_attempts |-> 0, micro_attempts |-> 0]
BasicType(t) == Mk([kind |-> "Basic_Type", bt |-> t])
Program(name, nodes, es, heap, e) ==
    [name |-> name, ast |-> nodes, ents |-> es, heap |-> heap, env |-> e]

(* global g: T  -- T is built already, gets built later, or never is.      *)
GlobalPrograms ==
    { Program("global",
              << Mk([kind |-> "Global", type_node |-> 2, entity |-> 1]), BasicType(T_i32) >>,
              << Ent("Global", 1) >>, <<1>>,
              WithEnv([built |-> b, buildable |-> later]))
      : b \in {{}, {2}}, later \in {{}, {2}} }


(* #if cond { e2 } else { e3 }  -- with the conditions below.              *)
StaticIfCond(k) ==
    CASE k = "true"   -> Mk([kind |-> "NumLit", type |-> T_bool, value |-> 1, flags |-> {"Comptime"}])
      [] k = "false"  -> Mk([kind |-> "NumLit", type |-> T_bool, value |-> 0, flags |-> {"Comptime"}])
      [] k = "int"    -> Mk([kind |-> "NumLit", type |-> T_i32, value |-> 1, flags |-> {"Comptime"}])
      [] k = "local"  -> Mk([kind |-> "Local", type |-> T_bool])
      [] k = "symbol" -> Mk([kind |-> "Symbol"])
      [] k = "insert" -> Mk([kind |-> "Directive_Insert", code_expr |-> 5])
      [] k = "defined" -> Mk([kind |-> "Directive_Defined", value |-> 1, type_node |-> 7])
StaticIfPrograms ==
    { Program("static_if",
              << Mk([kind |-> "Static_If", cond |-> 2, entity |-> 1,
                     true_entities |-> b[1], false_entities |-> b[2]]),
                 StaticIfCond(k),
                 Mk([kind |-> "Global", type |-> T_i32, entity |-> 2]),
                 Mk([kind |-> "Global", type |-> T_i32, entity |-> 3]),
                 Mk([kind |-> "Code_Block", type |-> T_Code, code |-> 6]),
                 Mk([kind |-> "NumLit", type |-> T_bool, value |-> 1, flags |-> {"Comptime"}]),
                 BasicType(T_bool) >>,
              << Ent("Static_If", 1), Ent("Global", 3), Ent("Global", 4) >>, <<1>>,
              WithEnv([built |-> {7}]))
      : k \in {"true", "false", "int", "local", "symbol", "insert", "defined"},
        b \in {<< <<2>>, <<3>> >>, << <<2, 3>>, <<>> >>, << <<>>, <<2, 3>> >>,
               << <<2>>, <<>> >>} }

(* #init f   and   #init g #after ...: f may come after g, and g after f,  *)
(* after itself, after a procedure that is no #init, or after both; g may  *)
(* take a parameter.                                                       *)
InitPrograms ==
    { Program("init",
              << Mk([kind |-> "Directive_Init", init_proc |-> 3, deps |-> d1, entity |-> 1]),
                 Mk([kind |-> "Directive_Init", init_proc |-> 4, deps |-> d2, entity |-> 2]),
                 Mk([kind |-> "Function", type |-> T_Function(T_void, 0)]),
                 Mk([kind |-> "Function", type |-> T_Function(T_void, np), type_node |-> 5]),
                 BasicType(T_Function(T_void, np)) >>,
              << Ent("Process_Directive", 1), Ent("Process_Directive", 2) >>, <<1, 2>>,
              WithEnv([built |-> {5}]))
      : d1 \in {<<>>, <<2>>}, d2 \in {<<1>>, <<2>>, <<3>>, <<1, 3>>, <<3, 1>>},
        np \in {0, 1} }

(* f :: () { a: A; b: i32; <third statement> }  -- A is built already or  *)
(* later; the third statement is one of the kinds below.                   *)
ThirdStatement(k) ==
    CASE k = "jump"   -> Mk([kind |-> "Jump"])
      [] k = "remove" -> Mk([kind |-> "Directive_Remove"])
      [] k = "insert" -> Mk([kind |-> "Directive_Insert", code_expr |-> 7])
      [] k = "local"  -> Mk([kind |-> "Local", type_node |-> 8])
FunctionPrograms ==
    { Program("function",
              << Mk([kind |-> "Function", func_body |-> 2, entity |-> 1,
                     type |-> T_Function(type_auto_return, 0)]),
                 Mk([kind |-> "Block", body |-> <<3, 4, 5>>]),
                 Mk([kind |-> "Local", type_node |-> 6]),
                 Mk([kind |-> "Local", type |-> T_i32]),
                 ThirdStatement(k),
                 BasicType(T_i32),
                 Mk([kind |-> "Code_Block", type |-> T_Code, code |-> 9]),
                 BasicType(T_bool),
                 Mk([kind |-> "Jump"]) >>,
              << Ent("Function", 1) >>, <<1>>,
              WithEnv([built |-> b, buildable |-> {6}]))
      : k \in {"jump", "remove", "insert", "local"}, b \in {{}, {6}} }

(* The expression  -a + p  with p a parameter whose type is built later.   *)
ExprPrograms ==
    { Program("expr",
              << Mk([kind |-> "Binary_Op", operation |-> op, left |-> 2, right |-> 3,
                     entity |-> 1]),
                 Mk([kind |-> "Unary_Op", operation |-> "Negate", expr |-> 4]),
                 Mk([kind |-> "Param", type_node |-> 5]),
                 Mk([kind |-> "Local", type |-> T_i32]),
                 BasicType(t) >>,
              << Ent("Expression", 1) >>, <<1>>,
              WithEnv([buildable |-> {5}]))
      : op \in {"Add", "Less", "Bool_And"}, t \in {T_i32, T_bool} }

(* lhs += v  with v: S, so that the operator overloads are asked; lhs is   *)
(* x[i] with x: ^S, or the type expression i32.  The overloads answer for *)
(* ^[] and for +=.                                                         *)
ProbeLeft(k) ==
    CASE k = "subscript" -> Mk([kind |-> "Subscript", operation |-> "Subscript",
                                left |-> 3, right |-> 4])
      [] k = "type"      -> BasicType(T_i32)
      [] k = "late"      -> Mk([kind |-> "Local", type_node |-> 7])
ProbePrograms ==
    { Program("probe",
              << Mk([kind |-> "Binary_Op", operation |-> "Assign_Add",
                     left |-> 2, right |-> 5, entity |-> 1]),
                 ProbeLeft(k),
                 Mk([kind |-> "Local", type |-> T_Pointer(T_Struct("S"))]),
                 Mk([kind |-> "Local", type |-> T_i32]),
                 Mk([kind |-> "Local", type |-> T_Struct("S")]),
                 Mk([kind |-> "Function", type |-> T_Function(T_Struct("S"), 2)]),
                 BasicType(T_Struct("S")) >>,
              << Ent("Expression", 1) >>, <<1>>,
              WithEnv([built |-> {2}, buildable |-> {7},
                       ovl |-> [op \in OvlOps |->
                                   CASE op = "Ptr_Subscript" -> ps
                                     [] op = "Assign_Add" -> aa
                                     [] OTHER -> "none"],
                       ovl_fn |-> 6, uninit |-> u]))
      : k \in {"subscript", "type", "late"}, ps \in {"none", "nomatch", "match"},
        aa \in {"nomatch", "yield", "match"}, u \in {"read", "fault"} }

(* f()  -- f is a procedure, or a macro, a polymorphic procedure or an     *)
(* overloaded procedure whose lookup answers a; the arguments match the    *)
(* procedure's type as tm says.                                            *)
Callee(k) ==
    IF k = "Function" THEN Mk([kind |-> "Function", type |-> T_Function(T_i32, 0)])
    ELSE Mk([kind |-> k])
CallPrograms ==
    { Program("call",
              << Mk([kind |-> "Call", callee |-> 2, entity |-> 1]),
                 Callee(x[1]),
                 Mk([kind |-> "Function", type |-> T_Function(T_i32, 0)]) >>,
              << Ent("Expression", 1) >>, <<1>>,
              WithEnv([macro |-> x[2], macro_fn |-> 3, poly |-> x[2], poly_fn |-> 3,
                       ovl |-> [op \in OvlOps |->
                                   IF op # "call" THEN "none"
                                   ELSE CASE x[2] = "ok" -> "match"
                                          [] x[2] = "yield" -> "yield"
                                          [] OTHER -> "nomatch"],
                       ovl_fn |-> 3, tm |-> tm]))
      : x \in ({"Macro", "Polymorphic_Proc", "Overloaded_Function"} \X {"null", "yield", "ok"})
               \cup {<<"Function", "ok">>},
        tm \in {"SUCCESS", "FAILED", "YIELD"} }

(* f(a)  -- f is a procedure (with or without constraints, with a declared *)
(* or an inferred return type, with a type that is known or built later), *)
(* a macro, or a local of a procedure type or of type i32; f takes np      *)
(* parameters; a is absent, a local, or #insert of a code block.           *)
ArgsCallee(k, ret, np, cons) ==
    CASE k = "fn" -> Mk([kind |-> "Function", type |-> T_Function(ret, np),
                         has_constraints |-> cons # "none",
                         constraints_met |-> cons = "met"])
      [] k = "late" -> Mk([kind |-> "Function", type_node |-> 6,
                           has_constraints |-> cons # "none",
                           constraints_met |-> cons = "met"])
      [] k = "macro" -> Mk([kind |-> "Macro"])
      [] k = "local_fn" -> Mk([kind |-> "Local", type |-> T_Function(ret, np)])
      [] k = "local_int" -> Mk([kind |-> "Local", type |-> T_i32])
ArgsProgram(k, ret, np, cons, a, tm) ==
    Program("args",
            << Mk([kind |-> "Call", callee |-> 2, entity |-> 1,
                   values |-> IF a = "none" THEN <<>> ELSE <<4>>]),
               ArgsCallee(k, ret, np, cons),
               Mk([kind |-> "Function", type |-> T_Function(ret, np),
                   has_constraints |-> cons # "none", constraints_met |-> cons = "met"]),
               Mk([kind |-> "Argument", value |-> 5]),
               IF a = "insert" THEN Mk([kind |-> "Directive_Insert", code_expr |-> 7])
               ELSE Mk([kind |-> "Local", type |-> T_i32]),
               BasicType(T_Function(ret, np)),
               Mk([kind |-> "Code_Block", type |-> T_Code, code |-> 8]),
               Mk([kind |-> "Local", type |-> T_i32]) >>,
            << Ent("Expression", 1) >>, <<1>>,
            WithEnv([macro |-> "ok", macro_fn |-> 3, buildable |-> {6}, tm |-> tm]))
ArgsPrograms ==
    { ArgsProgram(x[1], x[2], x[3], x[4], x[5], x[6]) :
        x \in {"fn", "late", "macro", "local_fn", "local_int"}
                \X {T_i32, type_auto_return} \X {0, 1}
                \X {"none", "pending", "met"} \X {"none", "local", "insert"}
                \X {"SUCCESS", "YIELD"} }

(* A polymorphic query with two polymorphic variables; x[4] and x[5] are   *)
(* the solver's answers for the first and the second, x[3] the known       *)
(* solutions.                                                              *)
PolyqueryPrograms ==
    { Program("polyquery",
              << Mk([kind |-> "Poly_Query", function_header |-> 2, poly_params |-> 2,
                     successful_symres |-> x[1], error_on_fail |-> x[2],
                     known_slns |-> x[3], entity |-> 1]),
                 Mk([kind |-> "Function", flags |-> {"Header_Check_No_Error"}]),
                 BasicType(T_i32) >>,
              << Ent("Polymorph_Query", 1) >>, <<1>>,
              WithEnv([sln |-> <<x[4], x[5]>>, buildable |-> {3}]))
      : x \in BOOLEAN \X BOOLEAN \X {{}, {2}}
               \X {"SUCCESS", "SPECIAL", "YIELD", "FAILED", "LATE", "BLOCKED", "DEPENDS"}
               \X {"SUCCESS", "SPECIAL", "FAILED", "LATE", "DEPENDS"} }

(* [1] of type T  -- an array literal whose element type T is built already *)
(* or later; the element is an i32 or a bool.                               *)
ArrayPrograms ==
    { Program("array",
              << Mk([kind |-> "Array_Literal", atnode |-> 2, values |-> <<3>>,
                     entity |-> 1]),
                 BasicType(T_i32),
                 Mk([kind |-> "NumLit", type |-> t, value |-> 1, flags |-> {"Comptime"}]) >>,
              << Ent("Expression", 1) >>, <<1>>,
              WithEnv([built |-> b, buildable |-> {2}]))
      : t \in {T_i32, T_bool}, b \in {{}, {2}} }

(* f :: () { break; { break; #unquote c; } }  -- a block in a block; the   *)
(* inner block ends with an insert directive, or with a jump.              *)
NestedPrograms ==
    { Program("nested",
              << Mk([kind |-> "Function", func_body |-> 2, entity |-> 1,
                     type |-> T_Function(T_void, 0)]),
                 Mk([kind |-> "Block", body |-> <<3, 4>>]),
                 Mk([kind |-> "Jump"]),
                 Mk([kind |-> "Block", body |-> <<5, 6>>]),
                 Mk([kind |-> "Jump"]),
                 ThirdStatement(k),
                 Mk([kind |-> "Code_Block", type |-> T_Code, code |-> 8]),
                 Mk([kind |-> "Jump"]) >>,
              << Ent("Function", 1) >>, <<1>>,
              WithEnv([built |-> {}]))
      : k \in {"jump", "insert"} }

(* f :: () { switch x { case 1, <v2> { }  case <v3> { } } }  -- x is an    *)
(* i32; v2 is 2, 1, #unquote c (c holds 2) or the range 2 .. 3; v3 is 3,   *)
(* 1 or the range 1 .. 2.  The range structure is built already or later.  *)
SecondValue(k) ==
    CASE k = "two"    -> Mk([kind |-> "NumLit", type |-> T_i32, value |-> 2, flags |-> {"Comptime"}])
      [] k = "one"    -> Mk([kind |-> "NumLit", type |-> T_i32, value |-> 1, flags |-> {"Comptime"}])
      [] k = "insert" -> Mk([kind |-> "Directive_Insert", code_expr |-> 13])
      [] k = "range"  -> Mk([kind |-> "Range_Literal", low |-> 14, high |-> 17])
ThirdValue(k) ==
    CASE k = "three"  -> Mk([kind |-> "NumLit", type |-> T_i32, value |-> 3, flags |-> {"Comptime"}])
      [] k = "one"    -> Mk([kind |-> "NumLit", type |-> T_i32, value |-> 1, flags |-> {"Comptime"}])
      [] k = "range"  -> Mk([kind |-> "Range_Literal", low |-> 18, high |-> 19])
SwitchPrograms ==
    { Program("switch",
              << Mk([kind |-> "Function", func_body |-> 2, entity |-> 1,
                     type |-> T_Function(T_void, 0)]),
                 Mk([kind |-> "Block", body |-> <<3>>]),
                 Mk([kind |-> "Switch", expr |-> 4, case_block |-> 5]),
                 Mk([kind |-> "Local", type |-> T_i32]),
                 Mk([kind |-> "Block", body |-> <<6, 7>>]),
                 Mk([kind |-> "Switch_Case", values |-> <<8, 9>>, block |-> 10]),
                 Mk([kind |-> "Switch_Case", values |-> <<11>>, block |-> 12]),
                 Mk([kind |-> "NumLit", type |-> T_i32, value |-> 1, flags |-> {"Comptime"}]),
                 SecondValue(k2),
                 Mk([kind |-> "Block"]),
                 ThirdValue(k3),
                 Mk([kind |-> "Block"]),
                 Mk([kind |-> "Code_Block", type |-> T_Code, code |-> 14]),
                 Mk([kind |-> "NumLit", type |-> T_i32, value |-> 2, flags |-> {"Comptime"}]),
                 Mk([kind |-> "Struct_Type", bt |-> T_Struct("range")]),
                 Mk([kind |-> "NumLit", type |-> T_i32, value |-> 1, flags |-> {"Comptime"}]),
                 Mk([kind |-> "NumLit", type |-> T_i32, value |-> 3, flags |-> {"Comptime"}]),
                 Mk([kind |-> "NumLit", type |-> T_i32, value |-> 1, flags |-> {"Comptime"}]),
                 Mk([kind |-> "NumLit", type |-> T_i32, value |-> 2, flags |-> {"Comptime"}]) >>,
              << Ent("Function", 1) >>, <<1>>,
              WithEnv([built |-> b, buildable |-> {15}, builtin_range_type |-> 15,
                       range_step |-> 16]))
      : k2 \in {"two", "one", "insert", "range"}, k3 \in {"three", "one", "range"},
        b \in {{}, {15}} }

(* p + n, n + p, p - n, n - p, p * n, n * p  -- p is a ^i32 and n an i32   *)
(* or an f32.                                                              *)
PointerPrograms ==
    { Program("pointer",
              << Mk([kind |-> "Binary_Op", operation |-> op, left |-> lr[1], right |-> lr[2],
                     entity |-> 1]),
                 Mk([kind |-> "Local", type |-> T_Pointer(T_i32)]),
                 Mk([kind |-> "Local", type |-> t]) >>,
              << Ent("Expression", 1) >>, <<1>>,
              WithEnv([built |-> {}]))
      : op \in {"Add", "Minus", "Multiply"}, lr \in {<<2, 3>>, <<3, 2>>}, t \in {T_i32, T_f32} }

(* f :: () { <s1>; <s2> }  -- with the auto-return placeholder for the     *)
(* return type; a statement is  return a  (a: i32),  return b  (b: bool),  *)
(* return p  (p a parameter whose type i32 is built later),  return  or a  *)
(* jump.                                                                   *)
ReturnStatement(k) ==
    CASE k = "i32"  -> Mk([kind |-> "Return", expr |-> 5])
      [] k = "bool" -> Mk([kind |-> "Return", expr |-> 6])
      [] k = "late" -> Mk([kind |-> "Return", expr |-> 7])
      [] k = "bare" -> Mk([kind |-> "Return"])
      [] k = "jump" -> Mk([kind |-> "Jump"])
ReturnPrograms ==
    { Program("return",
              << Mk([kind |-> "Function", func_body |-> 2, entity |-> 1,
                     type |-> T_Function(type_auto_return, 0)]),
                 Mk([kind |-> "Block", body |-> <<3, 4>>]),
                 ReturnStatement(k1),
                 ReturnStatement(k2),
                 Mk([kind |-> "Local", type |-> T_i32]),
                 Mk([kind |-> "Local", type |-> T_bool]),
                 Mk([kind |-> "Param", type_node |-> 8]),
                 BasicType(T_i32) >>,
              << Ent("Function", 1) >>, <<1>>,
              WithEnv([buildable |-> {8}]))
      : k1 \in {"i32", "late", "bare", "jump"}, k2 \in {"i32", "bool", "late", "bare", "jump"} }

(* r->m(a)  -- the receiver r is a local S, a local ^S, the literal 1 or a *)
(* parameter whose type i32 is built later; the arguments match the type   *)
(* of m as tm says.                                                        *)
Receiver(k) ==
    CASE k = "struct"  -> Mk([kind |-> "Local", type |-> T_Struct("S")])
      [] k = "pointer" -> Mk([kind |-> "Local", type |-> T_Pointer(T_Struct("S"))])
      [] k = "literal" -> Mk([kind |-> "NumLit", type |-> T_i32, value |-> 1,
                              flags |-> {"Comptime"}])
      [] k = "late"    -> Mk([kind |-> "Param", type_node |-> 7])
MethodPrograms ==
    { Program("method",
              << Mk([kind |-> "Method_Call", left |-> 2, right |-> 3, entity |-> 1]),
                 Receiver(k),
                 Mk([kind |-> "Call", callee |-> 4, values |-> <<5>>]),
                 Mk([kind |-> "Function", type |-> T_Function(T_i32, 2)]),
                 Mk([kind |-> "Argument", value |-> 6]),
                 Mk([kind |-> "Local", type |-> T_i32]),
                 BasicType(T_i32) >>,
              << Ent("Expression", 1) >>, <<1>>,
              WithEnv([buildable |-> {7}, tm |-> tm]))
      : k \in {"struct", "pointer", "literal", "late"}, tm \in {"SUCCESS", "YIELD"} }

(* f :: () where I(..), J(..)  -- each interface has one expression: one   *)
(* that checks, one that must not check but does, or one whose type is     *)
(* built later.  f is checked with or without Header_Check_No_Error.       *)
InterfaceExpr(k) ==
    CASE k \in {"met", "failed"} -> Mk([kind |-> "Local", type |-> T_i32])
      [] k = "late"              -> Mk([kind |-> "Param", type_node |-> 8])
ConstraintOf(k, itf) ==
    Mk([kind |-> "Constraint", interface |-> itf,
        inverted |-> IF k = "failed" THEN {1} ELSE {}])
ConstraintPrograms ==
    { Program("constraint",
              << Mk([kind |-> "Function", has_constraints |-> TRUE, constraints |-> <<2, 3>>,
                     flags |-> fl, entity |-> 1]),
                 ConstraintOf(k1, 4),
                 ConstraintOf(k2, 5),
                 Mk([kind |-> "Interface", values |-> <<6>>]),
                 Mk([kind |-> "Interface", values |-> <<7>>]),
                 InterfaceExpr(k1),
                 InterfaceExpr(k2),
                 BasicType(T_i32) >>,
              << Ent("Function_Header", 1) >>, <<1>>,
              WithEnv([buildable |-> {8}]))
      : k1 \in {"met", "failed", "late"}, k2 \in {"met", "failed", "late"},
        fl \in {{}, {"Header_Check_No_Error"}} }

(* f :: (x: T) -> R where I(..)  -- the interface has one expression as in *)
(* the programs above; f has no parameter, or one whose type T is i32,     *)
(* an i32 that is built later, or typeof #insert c; R is i32, built        *)
(* already or later.                                                       *)
HeaderParams(pk) == IF pk = "none" THEN <<>> ELSE <<5>>
HeaderParamType(pk) ==
    CASE pk = "plain"  -> 6
      [] pk = "late"   -> 8
      [] pk = "typeof" -> 7
      [] OTHER         -> NoNode
HeaderPrograms ==
    { Program("header",
              << Mk([kind |-> "Function", has_constraints |-> TRUE, constraints |-> <<2>>,
                     params |-> HeaderParams(x[2]), return_type |-> x[3],
                     flags |-> x[4], entity |-> 1]),
                 ConstraintOf(x[1], 3),
                 Mk([kind |-> "Interface", values |-> <<4>>]),
                 InterfaceExpr(x[1]),
                 Mk([kind |-> "Local", type_node |-> HeaderParamType(x[2])]),
                 BasicType(T_i32),
                 Mk([kind |-> "Typeof", expr |-> 9]),
                 BasicType(T_i32),
                 Mk([kind |-> "Directive_Insert", code_expr |-> 10]),
                 Mk([kind |-> "Code_Block", type |-> T_Code, code |-> 11]),
                 Mk([kind |-> "Local", type |-> T_i32]) >>,
              << Ent("Function_Header", 1) >>, <<1>>,
              WithEnv([built |-> {6}, buildable |-> {8}]))
      : x \in {"met", "failed", "late"} \X {"none", "plain", "late", "typeof"}
               \X {6, 8} \X {{}, {"Header_Check_No_Error"}} }

(* f :: () where I(T)  -- the interface I holds two expressions, the first *)
(* with an expected type; an expression is a local, a parameter whose type *)
(* is built later, a global without a type, or #insert of a code block;    *)
(* one of the two may be inverted.  I may also be an unresolved symbol or  *)
(* no interface at all.                                                    *)
InterfaceMember(k) ==
    CASE k = "met"    -> Mk([kind |-> "Local", type |-> T_i32])
      [] k = "late"   -> Mk([kind |-> "Param", type_node |-> 7])
      [] k = "bad"    -> Mk([kind |-> "Global"])
      [] k = "insert" -> Mk([kind |-> "Directive_Insert", code_expr |-> 9])
InterfaceProgram(ik, e1, e2, x1, inv) ==
    Program("interface",
            << Mk([kind |-> "Function", has_constraints |-> TRUE, constraints |-> <<2>>,
                   flags |-> {"Header_Check_No_Error"}, entity |-> 1]),
               Mk([kind |-> "Constraint", interface |-> 3, inverted |-> inv]),
               Mk([kind |-> ik, values |-> <<4, 5>>, expected |-> <<x1, NoNode>>]),
               InterfaceMember(e1),
               InterfaceMember(e2),
               BasicType(T_i32),
               BasicType(T_i32),
               BasicType(T_bool),
               Mk([kind |-> "Code_Block", type |-> T_Code, code |-> 10]),
               Mk([kind |-> "Local", type |-> T_i32]) >>,
            << Ent("Function_Header", 1) >>, <<1>>,
            WithEnv([built |-> {6, 8}, buildable |-> {7}]))
InterfacePrograms ==
    { InterfaceProgram("Interface", x[1], x[2], x[3], x[4]) :
        x \in ({"met", "late", "bad", "insert"} \X {"met", "late"}
                    \X {NoNode} \X {{}, {1}, {2}})
               \cup ({"met", "bad"} \X {"met"} \X {6, 7, 8} \X {{}, {1}}) }
    \cup { InterfaceProgram(ik, "met", "met", NoNode, {}) : ik \in {"Symbol", "Local"} }

(* f :: () { a[i] = v; }  -- a is a ^i32 or an S, i an i32, v an i32 or a  *)
(* parameter whose type i32 is built later; the overloads answer for []=.  *)
SubscriptEqualsPrograms ==
    { Program("subscript_equals",
              << Mk([kind |-> "Function", func_body |-> 2, entity |-> 1,
                     type |-> T_Function(T_void, 0)]),
                 Mk([kind |-> "Block", body |-> <<3>>]),
                 Mk([kind |-> "Binary_Op", operation |-> "Assign",
                     left |-> 4, right |-> 7]),
                 Mk([kind |-> "Subscript", operation |-> "Subscript",
                     left |-> 5, right |-> 6]),
                 Mk([kind |-> "Local", type |-> ta]),
                 Mk([kind |-> "Local", type |-> T_i32]),
                 IF late THEN Mk([kind |-> "Param", type_node |-> 9])
                         ELSE Mk([kind |-> "Local", type |-> T_i32]),
                 Mk([kind |-> "Function", type |-> T_Function(T_void, 3)]),
                 BasicType(T_i32) >>,
              << Ent("Function", 1) >>, <<1>>,
              WithEnv([buildable |-> {9},
                       ovl |-> [op \in OvlOps |->
                                   IF op = "Subscript_Equals" THEN se ELSE "none"],
                       ovl_fn |-> 8]))
      : ta \in {T_Pointer(T_i32), T_Struct("S")}, late \in BOOLEAN, se \in Answers }

(* f :: () { for v: it { s } }  and  for ^v: it { s }  -- it is an i32, a  *)
(* range, a [2] bool, a [] bool, a [..] bool, a ..bool, an Iterator(bool), *)
(* a bool, or a parameter whose type i32 is built later; s is a jump or a  *)
(* #remove.  The range structure is built already or later (it is built    *)
(* when a value of that type exists).                                      *)
Iterable(k) ==
    CASE k = "i32"      -> Mk([kind |-> "Local", type |-> T_i32])
      [] k = "range"    -> Mk([kind |-> "Local", type |-> T_Struct("range")])
      [] k = "array"    -> Mk([kind |-> "Local", type |-> T_Array(T_bool, 2)])
      [] k = "slice"    -> Mk([kind |-> "Local", type |-> T_Slice(T_bool)])
      [] k = "dynarray" -> Mk([kind |-> "Local", type |-> T_DynArray(T_bool)])
      [] k = "varargs"  -> Mk([kind |-> "Local", type |-> T_VarArgs(T_bool)])
      [] k = "iterator" -> Mk([kind |-> "Local", type |-> T_Iterator(T_bool)])
      [] k = "bool"     -> Mk([kind |-> "Local", type |-> T_bool])
      [] k = "late"     -> Mk([kind |-> "Param", type_node |-> 10])
IterableKinds ==
    {"i32", "range", "array", "slice", "dynarray", "varargs", "iterator", "bool", "late"}
ForProgram(k, bp, s, b) ==
      Program("for",
              << Mk([kind |-> "Function", func_body |-> 2, entity |-> 1,
                     type |-> T_Function(T_void, 0)]),
                 Mk([kind |-> "Block", body |-> <<3>>]),
                 Mk([kind |-> "For", iter |-> 4, var |-> 5, stmt |-> 6,
                     by_pointer |-> bp, no_close |-> bp]),
                 Iterable(k),
                 Mk([kind |-> "Local"]),
                 Mk([kind |-> "Block", body |-> <<7>>]),
                 Mk([kind |-> s]),
                 Mk([kind |-> "Struct_Type", bt |-> T_Struct("range")]),
                 Mk([kind |-> "NumLit", type |-> T_i32, value |-> 1,
                     flags |-> {"Comptime"}]),
                 BasicType(T_i32) >>,
              << Ent("Function", 1) >>, <<1>>,
              WithEnv([built |-> b, buildable |-> {8, 10}, builtin_range_type |-> 8,
                       range_step |-> 9]))
ForPrograms ==
    { ForProgram(x[1], x[2], x[3], x[4]) :
        x \in { y \in IterableKinds \X BOOLEAN \X {"Jump", "Directive_Remove"} \X {{}, {8}} :
                  y[1] = "range" => y[4] = {8} } }

(* f :: () { for a { for b { s }  #remove }  #remove }  -- a and b are an  *)
(* iterator, an array or a slice; s is #remove, a jump or the declaration  *)
(* of a local whose type is built later; either #remove after a loop may   *)
(* be left out.                                                            *)
RemoveStatement(s) ==
    IF s = "Local" THEN Mk([kind |-> "Local", type_node |-> 14]) ELSE Mk([kind |-> s])
RemovePrograms ==
    { Program("remove",
              << Mk([kind |-> "Function", func_body |-> 2, entity |-> 1,
                     type |-> T_Function(T_void, 0)]),
                 Mk([kind |-> "Block", body |-> IF x[5] THEN <<3, 12>> ELSE <<3>>]),
                 Mk([kind |-> "For", iter |-> 4, var |-> 5, stmt |-> 6]),
                 Iterable(x[1]),
                 Mk([kind |-> "Local"]),
                 Mk([kind |-> "Block", body |-> IF x[4] THEN <<7, 11>> ELSE <<7>>]),
                 Mk([kind |-> "For", iter |-> 8, var |-> 9, stmt |-> 10]),
                 Iterable(x[2]),
                 Mk([kind |-> "Local"]),
                 Mk([kind |-> "Block", body |-> <<13>>]),
                 Mk([kind |-> "Directive_Remove"]),
                 Mk([kind |-> "Directive_Remove"]),
                 RemoveStatement(x[3]),
                 BasicType(T_i32) >>,
              << Ent("Function", 1) >>, <<1>>,
              WithEnv([buildable |-> {14}]))
      : x \in {"iterator", "array", "slice"} \X {"iterator", "array", "slice"}
               \X {"Directive_Remove", "Jump", "Local"} \X BOOLEAN \X BOOLEAN }

(* l op r  and  op e  -- an operand is a literal, a local, a negated       *)
(* literal or a string literal; op is +, <, && or the unary - and !; the   *)
(* overloads answer for + .                                                *)
Literal(t) == Mk([kind |-> "NumLit", type |-> t, value |-> 1, flags |-> {"Comptime"}])
Operand(k, t, e) ==
    CASE k = "literal" -> Literal(t)
      [] k = "local"   -> Mk([kind |-> "Local", type |-> t])
      [] k = "unary"   -> Mk([kind |-> "Unary_Op", expr |-> e,
                              operation |-> IF t = T_bool THEN "Not" ELSE "Negate"])
      [] k = "string"  -> Mk([kind |-> "StrLit", type |-> T_Slice(T_i32),
                              flags |-> {"Comptime"}])
OperandType(op) == IF op \in {"Bool_And", "Not"} THEN T_bool ELSE T_i32
ComptimeProgram(op, l, r, add) ==
    Program("comptime",
            << IF op \in {"Negate", "Not"}
               THEN Mk([kind |-> "Unary_Op", operation |-> op, expr |-> 2, entity |-> 1])
               ELSE Mk([kind |-> "Binary_Op", operation |-> op, left |-> 2, right |-> 3,
                        entity |-> 1]),
               Operand(l, OperandType(op), 4),
               Operand(r, OperandType(op), 5),
               Literal(OperandType(op)),
               Literal(OperandType(op)),
               Mk([kind |-> "Function", type |-> T_Function(T_i32, 2)]) >>,
            << Ent("Expression", 1) >>, <<1>>,
            WithEnv([ovl |-> [o \in OvlOps |-> IF o = "Add" THEN add ELSE "none"],
                     ovl_fn |-> 6]))
ComptimePrograms ==
    { ComptimeProgram(x[1], x[2], x[3], x[4]) :
        x \in { y \in {"Add", "Less", "Bool_And", "Negate", "Not"}
                      \X {"literal", "local", "unary", "string"}
                      \X {"literal", "local", "unary", "string"}
                      \X {"none", "nomatch", "match"} :
                  /\ y[1] \in {"Negate", "Not"} => y[3] = "literal"
                  /\ y[1] # "Add" => y[4] = "none" /\ "string" \notin {y[2], y[3]} } }

(* f :: () { <statement> }  -- the statement is  x = v,  x += v,  x + v  or *)
(* g(v), with x an i32; v is a literal, a parameter whose type is built    *)
(* later, the assignment  y = 1,  or  s += t  with s, t: S and an overload *)
(* that answers for += .                                                   *)
AssignStatement(st) ==
    CASE st = "assign"   -> Mk([kind |-> "Binary_Op", operation |-> "Assign",
                               left |-> 4, right |-> 5])
      [] st = "compound" -> Mk([kind |-> "Binary_Op", operation |-> "Assign_Add",
                               left |-> 4, right |-> 5])
      [] st = "add"      -> Mk([kind |-> "Binary_Op", operation |-> "Add",
                               left |-> 4, right |-> 5])
      [] st = "call"     -> Mk([kind |-> "Call", callee |-> 8, values |-> <<9>>])
AssignOperand(rk) ==
    CASE rk = "literal"    -> Literal(T_i32)
      [] rk = "late"       -> Mk([kind |-> "Param", type_node |-> 10])
      [] rk = "assign"     -> Mk([kind |-> "Binary_Op", operation |-> "Assign",
                                 left |-> 6, right |-> 7])
      [] rk = "overloaded" -> Mk([kind |-> "Binary_Op", operation |-> "Assign_Add",
                                 left |-> 6, right |-> 7])
AssignPrograms ==
    { Program("assign",
              << Mk([kind |-> "Function", func_body |-> 2, entity |-> 1,
                     type |-> T_Function(T_void, 0)]),
                 Mk([kind |-> "Block", body |-> <<3>>]),
                 AssignStatement(x[1]),
                 Mk([kind |-> "Local", type |-> T_i32]),
                 AssignOperand(x[2]),
                 Mk([kind |-> "Local",
                     type |-> IF x[2] = "overloaded" THEN T_Struct("S") ELSE T_i32]),
                 IF x[2] = "overloaded" THEN Mk([kind |-> "Local", type |-> T_Struct("S")])
                 ELSE Literal(T_i32),
                 Mk([kind |-> "Function", type |-> T_Function(T_void, 1)]),
                 Mk([kind |-> "Argument", value |-> 5]),
                 BasicType(T_i32),
                 Mk([kind |-> "Function", type |-> T_Function(T_Struct("S"), 2)]) >>,
              << Ent("Function", 1) >>, <<1>>,
              WithEnv([buildable |-> {10},
                       ovl |-> [op \in OvlOps |->
                                   IF op = "Assign_Add" /\ x[2] = "overloaded"
                                   THEN x[3] ELSE "none"],
                       ovl_fn |-> 11]))
      : x \in {"assign", "compound", "add", "call"}
               \X {"literal", "late", "assign", "overloaded"}
               \X {"match", "nomatch"} }

(* f :: () -> R { return ^v; }  -- v is the array literal [1] of i32 (the   *)
(* element type built already or later) or a local array; R is the         *)
(* auto-return placeholder, ^[1] i32 or i32.                                *)
ReturnLiteralPrograms ==
    { Program("return_literal",
              << Mk([kind |-> "Function", func_body |-> 2, entity |-> 1,
                     type |-> T_Function(x[1], 0)]),
                 Mk([kind |-> "Block", body |-> <<3>>]),
                 Mk([kind |-> "Return", expr |-> 4]),
                 Mk([kind |-> "Address_Of", expr |-> 5]),
                 IF x[2] = "array"
                 THEN Mk([kind |-> "Array_Literal", atnode |-> 6, values |-> <<7>>])
                 ELSE Mk([kind |-> "Local", type |-> T_Array(T_i32, 1)]),
                 BasicType(T_i32),
                 Literal(T_i32) >>,
              << Ent("Function", 1) >>, <<1>>,
              WithEnv([built |-> x[3], buildable |-> {6}]))
      : x \in {type_auto_return, T_Pointer(T_Array(T_i32, 1)), T_i32}
               \X {"array", "local"} \X {{}, {6}} }

(* f :: () { switch x { <body> } }  -- the body holds case 1, two default   *)
(* cases and a declaration, some of them inside a nested block:            *)
(*   two_defaults            case 1 {}  #default {}  #default {}           *)
(*   nested_second_default   case 1 {}  #default {}  { #default {} }       *)
(*   nested_first_default    { #default {} }  #default {}  case 1 {}       *)
(*   statement               y: i32  case 1 {}                             *)
(*   nested_statement        { y: i32 }  case 1 {}                         *)
(*   one_default             case 1 {}  { #default {} }                    *)
SwitchBody(k) ==
    CASE k = "two_defaults"          -> << <<6, 7, 11>>, <<>> >>
      [] k = "nested_second_default" -> << <<6, 7, 13>>, <<11>> >>
      [] k = "nested_first_default"  -> << <<13, 11, 6>>, <<7>> >>
      [] k = "statement"             -> << <<14, 6>>, <<>> >>
      [] k = "nested_statement"      -> << <<13, 6>>, <<14>> >>
      [] k = "one_default"           -> << <<6, 13>>, <<7>> >>
SwitchBodyKinds ==
    {"two_defaults", "nested_second_default", "nested_first_default", "statement",
     "nested_statement", "one_default"}
SwitchBodyPrograms ==
    { Program("switch_body",
              << Mk([kind |-> "Function", func_body |-> 2, entity |-> 1,
                     type |-> T_Function(T_void, 0)]),
                 Mk([kind |-> "Block", body |-> <<3>>]),
                 Mk([kind |-> "Switch", expr |-> 4, case_block |-> 5]),
                 IF late THEN Mk([kind |-> "Param", type_node |-> 15])
                 ELSE Mk([kind |-> "Local", type |-> T_i32]),
                 Mk([kind |-> "Block", body |-> SwitchBody(k)[1]]),
                 Mk([kind |-> "Switch_Case", values |-> <<8>>, block |-> 9]),
                 Mk([kind |-> "Switch_Case", is_default |-> TRUE, block |-> 10]),
                 Literal(T_i32),
                 Mk([kind |-> "Block"]),
                 Mk([kind |-> "Block"]),
                 Mk([kind |-> "Switch_Case", is_default |-> TRUE, block |-> 12]),
                 Mk([kind |-> "Block"]),
                 Mk([kind |-> "Block", body |-> SwitchBody(k)[2]]),
                 Mk([kind |-> "Local", type |-> T_i32]),
                 BasicType(T_i32) >>,
              << Ent("Function", 1) >>, <<1>>,
              WithEnv([buildable |-> {15}]))
      : k \in SwitchBodyKinds, late \in BOOLEAN }

(* f :: (a, b[, c]) -> i32  -- a parameter is plain, has a default value, *)
(* is variadic with or without an element type, or has a type that is     *)
(* built later.                                                           *)
ParamKinds == {"plain", "default", "variadic", "untyped", "late"}
ParamLocal(k) ==
    CASE k = "plain"    -> Mk([kind |-> "Local", type_node |-> 5])
      [] k = "default"  -> Mk([kind |-> "Local", default_value |-> 6])
      [] k = "variadic" -> Mk([kind |-> "Local", type_node |-> 7, vararg_kind |-> "Typed"])
      [] k = "untyped"  -> Mk([kind |-> "Local", vararg_kind |-> "Untyped"])
      [] k = "late"     -> Mk([kind |-> "Local", type_node |-> 8])
      [] OTHER          -> Mk([kind |-> "Local", type |-> T_i32])
ParamsPrograms ==
    { Program("params",
              << Mk([kind |-> "Function",
                     params |-> IF x[3] = "absent" THEN <<2, 3>> ELSE <<2, 3, 4>>,
                     return_type |-> 5, entity |-> 1]),
                 ParamLocal(x[1]), ParamLocal(x[2]), ParamLocal(x[3]),
                 BasicType(T_i32),
                 Literal(T_i32),
                 BasicType(T_VarArgs(T_i32)),
                 BasicType(T_i32) >>,
              << Ent("Function_Header", 1) >>, <<1>>,
              WithEnv([built |-> {5, 7}, buildable |-> {8}]))
      : x \in ParamKinds \X ParamKinds \X (ParamKinds \cup {"absent"}) }

(* S :: struct { x: i32; use p: ^V }   V :: struct { u: i32 }   and the     *)
(* expression s.x or s.u with s: S or s: ^S; the types of S and of V are   *)
(* built already, built later, or (V) never.                               *)
StructPrograms ==
    { Program("struct",
              << Mk([kind |-> "Struct_Type", bt |-> T_Struct("S"), members |-> <<4, 5>>,
                     memarr |-> << [type |-> T_i32, used |-> FALSE],
                                   [type |-> T_Pointer(T_Struct("V")), used |-> TRUE] >>,
                     sps |-> "Start", entity |-> 1]),
                 Mk([kind |-> "Struct_Type", bt |-> T_Struct("V"), members |-> <<6>>,
                     memarr |-> << [type |-> T_i32, used |-> FALSE] >>,
                     sps |-> "Start", entity |-> 2]),
                 Mk([kind |-> "Field_Access", expr |-> 7, field |-> x[3], entity |-> 3]),
                 Mk([kind |-> "Struct_Member", type_node |-> 8]),
                 Mk([kind |-> "Struct_Member", type_node |-> 9]),
                 Mk([kind |-> "Struct_Member", type_node |-> 8]),
                 Mk([kind |-> "Local",
                     type |-> IF x[4] THEN T_Pointer(T_Struct("S")) ELSE T_Struct("S")]),
                 BasicType(T_i32),
                 BasicType(T_Pointer(T_Struct("V"))) >>,
              << Ent("Type_Alias", 1), Ent("Type_Alias", 2), Ent("Expression", 3) >>,
              <<1, 2, 3>>,
              WithEnv([built |-> {8, 9} \cup x[1], buildable |-> x[2], uses_done |-> {}]))
      : x \in {{}, {1}, {2}, {1, 2}} \X {{1}, {1, 2}} \X {"x", "u"} \X BOOLEAN }

(* f(#callsite) or f(x)  -- f returns i32 or has an inferred return type   *)
(* that is not known yet; the types of the arguments match or are not      *)
(* known yet.                                                              *)
CallSitePrograms ==
    { Program("callsite",
              << Mk([kind |-> "Call", callee |-> 2, values |-> <<3>>, entity |-> 1]),
                 Mk([kind |-> "Function", type |-> T_Function(x[1], 1)]),
                 Mk([kind |-> "Argument", value |-> 4]),
                 IF x[3] THEN Mk([kind |-> "Call_Site"])
                 ELSE Mk([kind |-> "Local", type |-> T_i32]),
                 Mk([kind |-> "Struct_Type", bt |-> T_Struct("CallSite")]) >>,
              << Ent("Expression", 1) >>, <<1>>,
              WithEnv([built |-> {5}, builtin_callsite_type |-> 5, tm |-> x[2]]))
      : x \in {T_i32, type_auto_return} \X {"SUCCESS", "YIELD"} \X BOOLEAN }

(* f()  -- f is an intrinsic procedure that the compiler knows or does not *)
(* know, with a declared or an inferred return type; the arguments match   *)
(* the procedure's type as tm says.                                        *)
IntrinsicPrograms ==
    { Program("intrinsic",
              << Mk([kind |-> "Call", callee |-> 2, entity |-> 1]),
                 Mk([kind |-> "Function", type |-> T_Function(x[1], 0),
                     is_intrinsic |-> TRUE, flags |-> x[2]]) >>,
              << Ent("Expression", 1) >>, <<1>>,
              WithEnv([tm |-> x[3]]))
      : x \in {T_i32, type_auto_return} \X {{}, {"Intrinsic_Known"}}
               \X {"SUCCESS", "FAILED", "YIELD"} }

(* f :: () { <statement> }  -- the statement is  *(p + n) = s,              *)
(* *(p - n) += s  and the like, or  p += n,  with p: ^S, s: S and n an i32  *)
(* local or literal; there is no overload for the assignment operator, or  *)
(* one that does not match.                                                *)
ScalePrograms ==
    { Program("scale",
              << Mk([kind |-> "Function", func_body |-> 2, entity |-> 1,
                     type |-> T_Function(T_void, 0)]),
                 Mk([kind |-> "Block", body |-> <<3>>]),
                 IF x[1] = "pointer"
                 THEN Mk([kind |-> "Binary_Op", operation |-> x[2], left |-> 6, right |-> 8])
                 ELSE Mk([kind |-> "Binary_Op", operation |-> x[2], left |-> 4, right |-> 7]),
                 Mk([kind |-> "Dereference", expr |-> 5]),
                 Mk([kind |-> "Binary_Op", operation |-> x[3], left |-> 6, right |-> 8]),
                 Mk([kind |-> "Local", type |-> T_Pointer(T_Struct("S"))]),
                 Mk([kind |-> "Local", type |-> T_Struct("S")]),
                 IF x[4] THEN Literal(T_i32) ELSE Mk([kind |-> "Local", type |-> T_i32]) >>,
              << Ent("Function", 1) >>, <<1>>,
              WithEnv([ovl |-> [op \in OvlOps |-> IF op = x[2] THEN x[5] ELSE "none"]]))
      : x \in {"deref", "pointer"} \X {"Assign", "Assign_Add"} \X {"Add", "Minus"}
               \X BOOLEAN \X {"none", "nomatch"} }

(* f :: () -> i32 { x = do { <statement>; return 1; }; }  -- the statement *)
(* is a local, a parameter whose type is built later, a global without a   *)
(* type, or #insert of a code block.                                       *)
DoBlockStatement(k) ==
    CASE k = "local"  -> Mk([kind |-> "Local", type |-> T_i32])
      [] k = "late"   -> Mk([kind |-> "Param", type_node |-> 10])
      [] k = "global" -> Mk([kind |-> "Global"])
      [] k = "insert" -> Mk([kind |-> "Directive_Insert", code_expr |-> 11])
DoBlockPrograms ==
    { Program("do_block",
              << Mk([kind |-> "Function", func_body |-> 2, entity |-> 1,
                     type |-> T_Function(T_i32, 0)]),
                 Mk([kind |-> "Block", body |-> <<3>>]),
                 Mk([kind |-> "Binary_Op", operation |-> "Assign", left |-> 4, right |-> 5]),
                 Mk([kind |-> "Local", type |-> T_i32]),
                 Mk([kind |-> "Do_Block", block |-> 6, type |-> type_auto_return]),
                 Mk([kind |-> "Block", body |-> IF x[2] THEN <<7, 8>> ELSE <<7>>]),
                 DoBlockStatement(x[1]),
                 Mk([kind |-> "Return", expr |-> 9]),
                 Literal(T_i32),
                 BasicType(T_i32),
                 Mk([kind |-> "Code_Block", type |-> T_Code, code |-> 12]),
                 Mk([kind |-> "Local", type |-> T_i32]) >>,
              << Ent("Function", 1) >>, <<1>>,
              WithEnv([buildable |-> {10}]))
      : x \in {"local", "late", "global", "insert"} \X BOOLEAN }

(* a <op> b  with a and b two locals of one type.                          *)
AllowedOps ==
    {"Add", "Minus", "Multiply", "Divide", "Modulus", "Equal", "Not_Equal", "Less",
     "Less_Equal", "Greater", "Greater_Equal", "And", "Or", "Xor", "Shl", "Shr", "Sar",
     "Bool_And", "Bool_Or"}
AllowedTypes ==
    {T_i32, T_f32, T_bool, T_Pointer(T_i32), T_Enum("E"), T_Function(T_i32, 0),
     T_Struct("S")}
AllowedPrograms ==
    { Program("allowed",
              << Mk([kind |-> "Binary_Op", operation |-> x[1], left |-> 2, right |-> 3,
                     entity |-> 1]),
                 Mk([kind |-> "Local", type |-> x[2]]),
                 Mk([kind |-> "Local", type |-> x[2]]) >>,
              << Ent("Expression", 1) >>, <<1>>, DefaultEnv)
      : x \in { y \in AllowedOps \X AllowedTypes :
                   binop_is_compare(y[1]) \/ y[2] \in {T_i32, T_f32, T_bool} } }

Programs ==
    GlobalPrograms \cup StaticIfPrograms \cup InitPrograms \cup FunctionPrograms
        \cup ExprPrograms \cup ArrayPrograms \cup ProbePrograms \cup CallPrograms
        \cup PolyqueryPrograms \cup NestedPrograms \cup SwitchPrograms
        \cup PointerPrograms \cup ReturnPrograms \cup MethodPrograms
    \cup ConstraintPrograms \cup SubscriptEqualsPrograms
    \cup ForPrograms \cup ComptimePrograms \cup ArgsPrograms \cup InterfacePrograms
    \cup HeaderPrograms \cup RemovePrograms \cup AssignPrograms
    \cup ReturnLiteralPrograms \cup SwitchBodyPrograms \cup ParamsPrograms
    \cup StructPrograms \cup CallSitePrograms \cup IntrinsicPrograms
    \cup ScalePrograms \cup DoBlockPrograms \cup AllowedPrograms

-----------------------------------------------------------------------------
(* The state machine: the entity scheduler drives check_entity.            *)

Ctx ==
    [ ast |-> ast, acf |-> all_checks_are_final, lvl |-> current_checking_level,
      etmbk |-> expression_types_must_be_known, ifi |-> inside_for_iterator,
      ert |-> expected_return_type, brtt |-> builtin_range_type_type, errs |-> errs, tr |-> <<>>, depth |-> 0,
      cs |-> Check_Success, ret |-> NoNode, cd |-> cycle_detected, env |-> env,
      ents |-> ents, initp |-> init_procedures, heap |-> entity_heap, crash |-> crashed ]

NoCheck == [e |-> 0, before |-> Ent("None", NoNode), cs |-> Check_Success, turn |-> 0]

Commit(r, e, turn) ==
    /\ Len(r.ast) <= MaxNodes
    /\ Len(r.heap) <= MaxHeap
    /\ Len(r.initp) <= MaxInit
    /\ ast' = r.ast
    /\ all_checks_are_final' = r.acf
    /\ current_checking_level' = r.lvl
    /\ expression_types_must_be_known' = r.etmbk
    /\ inside_for_iterator' = r.ifi
    /\ expected_return_type' = r.ert
    /\ builtin_range_type_type' = r.brtt
    /\ errs' = r.errs
    /\ init_procedures' = r.initp
    /\ entity_heap' = r.heap
    /\ trace' = r.tr
    /\ crashed' = r.crash
    /\ checked' = [e |-> e, before |-> ents[e], cs |-> r.cs, turn |-> turn]
    /\ stalled' = IF r.ents[e].state = ents[e].state THEN stalled \cup {e} ELSE {}
    /\ UNCHANGED <<cycle_detected, env, scen>>

InitOf(pr) ==
    /\ ast = pr.ast
    /\ ents = pr.ents
    /\ entity_heap = pr.heap
    /\ env = pr.env
    /\ scen = pr.name
    /\ cycle_detected = FALSE
    /\ all_checks_are_final = TRUE
    /\ current_checking_level = 0
    /\ expression_types_must_be_known = FALSE
    /\ inside_for_iterator = FALSE
    /\ expected_return_type = NoNode
    /\ builtin_range_type_type \in
          {NULLT, type_build_from_ast([ast |-> pr.ast, env |-> pr.env],
                                      pr.env.builtin_range_type)}
    /\ errs = 0
    /\ init_procedures = <<>>
    /\ checked = NoCheck
    /\ stalled = {}
    /\ trace = <<>>
    /\ crashed = FALSE

Init == \E pr \in Programs : InitOf(pr)

InHeap(e) == \E i \in DOMAIN entity_heap : entity_heap[i] = e

(* The scheduler may hand out work: no crash, and the diagnostics bound.   *)
Running == ~crashed /\ errs < MaxErrs

(* The scheduler hands an entity in Check_Types to check_entity.           *)
CheckEntity(e) ==
    /\ Running
    /\ InHeap(e)
    /\ ents[e].state = Entity_State_Check_Types
    /\ ents[e].macro_attempts < MaxAttempts
    /\ \E r \in {check_entity(Ctx, e)} : Commit(r, e, 0) /\ ents' = r.ents

(* The same once macro_attempts has reached the bound: the counter stays,  *)
(* and checked.turn tells one such turn from the next.                     *)
CheckEntityAgain(e) ==
    /\ Running
    /\ InHeap(e)
    /\ ents[e].state = Entity_State_Check_Types
    /\ ents[e].macro_attempts = MaxAttempts
    /\ \E r \in {check_entity(Ctx, e)} :
           /\ Commit(r, e, 1 - checked.turn)
           /\ ents' = [r.ents EXCEPT ![e].macro_attempts =
                                        IF @ > MaxAttempts THEN MaxAttempts ELSE @]

(* check_entity is run a second time on a Finalized entity.                *)
Recheck(e) ==
    /\ Running
    /\ InHeap(e)
    /\ ents[e].state = Entity_State_Finalized
    /\ \E r \in {check_entity(Ctx, e)} : Commit(r, e, 0) /\ ents' = r.ents

(* Symbol resolution hands an entity back to the checker.                  *)
Symres(e) ==
    /\ ~crashed
    /\ InHeap(e)
    /\ ents[e].state = Entity_State_Resolve_Symbols
    /\ ents' = [ents EXCEPT ![e].state = Entity_State_Check_Types]
    /\ stalled' = {}
    /\ checked' = NoCheck
    /\ UNCHANGED <<ast, cycle_detected, all_checks_are_final, current_checking_level,
                   expression_types_must_be_known, inside_for_iterator,
                   expected_return_type, builtin_range_type_type, errs,
                   init_procedures, entity_heap, env,
                   trace, crashed, scen>>

Waiting == {e \in DOMAIN ents : InHeap(e) /\ ents[e].state = Entity_State_Check_Types}

(* A full round in which no entity changed state.                          *)
SetCycleDetected ==
    /\ ~crashed
    /\ ~cycle_detected
    /\ Waiting # {}
    /\ Waiting \subseteq stalled
    /\ \A e \in DOMAIN ents : InHeap(e) => ents[e].state # Entity_State_Resolve_Symbols
    /\ cycle_detected' = TRUE
    /\ stalled' = {}
    /\ checked' = NoCheck
    /\ UNCHANGED <<ast, ents, all_checks_are_final, current_checking_level,
                   expression_types_must_be_known, inside_for_iterator,
                   expected_return_type, builtin_range_type_type, errs,
                   init_procedures, entity_heap, env,
                   trace, crashed, scen>>

(* The type engine finishes building a type.                               *)
EnvBuildType(t) ==
    /\ t \in env.buildable \ env.built
    /\ env' = [env EXCEPT !.built = @ \cup {t}]
    /\ stalled' = {}
    /\ checked' = NoCheck
    /\ UNCHANGED <<ast, ents, cycle_detected, all_checks_are_final, current_checking_level,
                   expression_types_must_be_known, inside_for_iterator,
                   expected_return_type, builtin_range_type_type, errs,
                   init_procedures, entity_heap,
                   trace, crashed, scen>>

Next ==
    \/ \E e \in DOMAIN ents : CheckEntity(e)
    \/ \E e \in DOMAIN ents : Symres(e)
    \/ SetCycleDetected
    \/ \E t \in env.buildable : EnvBuildType(t)

Spec == Init /\ [][Next]_vars

(* The scheduler keeps going round: every entity that waits for a check or *)
(* for symbol resolution gets its turn, and a stalled round is noticed.    *)
MaxEntities == 3

NextFair ==
    \/ \E e \in DOMAIN ents : CheckEntity(e)
    \/ \E e \in DOMAIN ents : CheckEntityAgain(e)
    \/ \E e \in DOMAIN ents : Symres(e)
    \/ SetCycleDetected
    \/ \E t \in env.buildable : EnvBuildType(t)

Turn(e) == e \in DOMAIN ents /\ (CheckEntity(e) \/ CheckEntityAgain(e) \/ Symres(e))

(* Entity e waits for its turn: the guards of Turn(e).                     *)
Waits(e) ==
    /\ e \in DOMAIN ents
    /\ ~crashed
    /\ InHeap(e)
    /\ \/ ents[e].state = Entity_State_Resolve_Symbols
       \/ ents[e].state = Entity_State_Check_Types /\ errs < MaxErrs

(* Weak fairness of every Turn(e), with Waits(e) for ENABLED <<Turn(e)>>_vars, *)
(* and of SetCycleDetected.                                                *)
SpecFair ==
    /\ Init
    /\ [][NextFair]_vars
    /\ \A e \in 1..MaxEntities : []<>(~Waits(e)) \/ []<><<Turn(e)>>_vars
    /\ WF_vars(SetCycleDetected)

(* The scheduler, were it to hand out Finalized entities a second time.    *)
NextRecheck ==
    \/ \E e \in DOMAIN ents : CheckEntity(e)
    \/ \E e \in DOMAIN ents : Recheck(e)
    \/ \E e \in DOMAIN ents : Symres(e)
    \/ SetCycleDetected
    \/ \E t \in env.buildable : EnvBuildType(t)

SpecRecheck == Init /\ [][NextRecheck]_vars

-----------------------------------------------------------------------------
(* Properties of check_entity                                              *)

JustChecked == checked # NoCheck
CheckedEntity == ents[checked.e]

(* C1: check_entity translates the status returned by the check procedure  *)
(* into the entity's state: Success gives Code_Gen, Complete Finalized,    *)
(* Return_To_Symres Resolve_Symbols and Failed Failed, each with both      *)
(* attempt counters reset to 0; Yield_Macro leaves the state as it was and *)
(* adds one to macro_attempts.                                             *)
C1_StatusToState ==
    JustChecked =>
        /\ checked.cs \in {Check_Success, Check_Complete, Check_Return_To_Symres, Check_Failed}
              => /\ CheckedEntity.macro_attempts = 0
                 /\ CheckedEntity.micro_attempts = 0
        /\ checked.cs = Check_Success => CheckedEntity.state = Entity_State_Code_Gen
        /\ checked.cs = Check_Complete => CheckedEntity.state = Entity_State_Finalized
        /\ checked.cs = Check_Return_To_Symres
              => CheckedEntity.state = Entity_State_Resolve_Symbols
        /\ checked.cs = Check_Failed => CheckedEntity.state = Entity_State_Failed
        /\ checked.cs = Check_Yield_Macro
              => /\ CheckedEntity.state = checked.before.state
                 /\ CheckedEntity.macro_attempts = checked.before.macro_attempts + 1

(* An entity that yielded before has now been checked with Success.        *)
C1_Witness ==
    /\ JustChecked
    /\ checked.cs = Check_Success
    /\ checked.before.macro_attempts > 0
    /\ CheckedEntity.state = Entity_State_Code_Gen

(* C2, as the specification has it: when the check procedure returns       *)
(* Error, the entity's state is Failed after the call.                     *)
C2_ErrorMarksFailed ==
    JustChecked /\ checked.cs = Check_Error => CheckedEntity.state = Entity_State_Failed

(* C2, as the code has it: when the check procedure returns Error,         *)
(* check_entity leaves the entity's state and both attempt counters as     *)
(* they were; only Failed puts the entity in the Failed state.             *)
C2_ErrorLeavesEntity ==
    JustChecked /\ checked.cs = Check_Error =>
        /\ CheckedEntity.state = checked.before.state
        /\ CheckedEntity.macro_attempts = checked.before.macro_attempts
        /\ CheckedEntity.micro_attempts = checked.before.micro_attempts

(* A check procedure has returned Error for an entity that yielded before. *)
C2_Witness ==
    /\ JustChecked
    /\ checked.cs = Check_Error
    /\ checked.before.macro_attempts > 0
    /\ CheckedEntity.state = Entity_State_Check_Types
    /\ errs > 0

-----------------------------------------------------------------------------
(* Properties of the statuses, read off the log of the last check_entity   *)

Events == DOMAIN trace
IsRet(i) == trace[i].ev = "ret"
IsReport(i) == trace[i].ev = "report" /\ trace[i].p = "onyx_report_error"
IsDiagnostic(i) == trace[i].ev = "report"

(* C3, as the specification has it: while cycle_detected is set, no check  *)
(* procedure returns Yield_Macro.                                          *)
C3_NoYieldUnderCycle ==
    \A i \in Events : IsRet(i) /\ trace[i].cd => trace[i].cs # Check_Yield_Macro

(* C3, as the code has it: while cycle_detected is set, every YIELD,       *)
(* YIELD_ and YIELD_ERROR reports an error with onyx_report_error and      *)
(* returns Error from the procedure it is in; the plain                    *)
(* `return Check_Yield_Macro` statements are not converted.                *)
C3_YieldMacroUnderCycle ==
    \A i \in Events :
        trace[i].ev = "YIELD" /\ trace[i].cd =>
            /\ trace[i].cs = Check_Error
            /\ i > 1 /\ IsReport(i - 1)
            /\ i < Len(trace) /\ IsRet(i + 1)
            /\ trace[i + 1].cs = Check_Error /\ trace[i + 1].d = trace[i].d

(* A YIELD has been reached with cycle_detected set.                       *)
C3_Witness ==
    /\ cycle_detected
    /\ errs > 0
    /\ \E i \in Events : trace[i].ev = "YIELD" /\ trace[i].cd /\ trace[i].cs = Check_Error

(* C5, as the specification has it: every return of Error by a check       *)
(* procedure comes after at least one diagnostic of the same check_entity  *)
(* run, made with onyx_report_error (one made with onyx_submit_error is    *)
(* counted as well).                                                       *)
C5_ErrorIsReported ==
    ~crashed =>
        \A i \in Events :
            IsRet(i) /\ trace[i].cs = Check_Error => \E j \in 1..(i - 1) : IsDiagnostic(j)

(* The return of the procedure that called the one returning at i: the     *)
(* first return after i that is one level up.                              *)
ReturnsAbove(i) == {j \in (i + 1)..Len(trace) : IsRet(j) /\ trace[j].d = trace[i].d - 1}
Enclosing(i) == CHOOSE j \in ReturnsAbove(i) : \A k \in ReturnsAbove(i) : j <= k

-----------------------------------------------------------------------------
(* Properties of the scheduler rounds and of the nodes                     *)

Completed(e) ==
    ents[e].state \in {Entity_State_Code_Gen, Entity_State_Finalized, Entity_State_Failed}
AllCompleted == \A e \in DOMAIN ents : InHeap(e) => Completed(e)

(* C4, as the specification has it: the scheduler rounds end with every    *)
(* entity completed or with at least one error reported (a run that dies   *)
(* on a null pointer ends as well).                                        *)
C4_Progress == <>(AllCompleted \/ errs > 0 \/ crashed)

(* C7, as the specification has it: check_entity run again on a Finalized  *)
(* entity changes no AST node, appends nothing to init_procedures, inserts *)
(* nothing into the entity heap and leaves the entity Finalized.           *)
C7_RecheckIsNoOp ==
    [][\A e \in DOMAIN ents :
          ents[e].state = Entity_State_Finalized /\ checked'.e = e =>
              /\ ast' = ast
              /\ init_procedures' = init_procedures
              /\ entity_heap' = entity_heap
              /\ ents'[e].state = Entity_State_Finalized]_vars

(* C8, as the specification has it: no node is given Has_Been_Checked      *)
(* while all_checks_are_final is false.                                    *)
C8_CheckedOnlyWhenFinal ==
    \A i \in Events :
        trace[i].ev = "flag" /\ trace[i].p = "Has_Been_Checked" => trace[i].cs = 1

(* C9: once the type of a node is not null it is never null again: not     *)
(* from one check_entity call to the next, and at no write inside one.     *)
C9_MonotonicTyping ==
    [][/\ \A n \in DOMAIN ast : ast[n].type # NULLT => ast'[n].type # NULLT
       /\ \A i \in DOMAIN trace' : trace'[i].ev = "type" => trace'[i].p # "nulled"]_vars

(* On re-entry after a yield a type has been written to a node that had    *)
(* one already.                                                            *)
C9_Witness ==
    /\ JustChecked
    /\ checked.before.macro_attempts > 0
    /\ \E i \in Events : /\ trace[i].ev = "type" /\ trace[i].p = "set" /\ trace[i].cs = 1
                         /\ ast[trace[i].n].type # NULLT

IsBlockEvent(i, kind) == trace[i].ev = kind /\ trace[i].p = "check_block"

(* C10: when check_block stops on a statement with Yield_Macro, Failed or  *)
(* Error, statement_idx is the number of statements in front of it, each   *)
(* of which returned Success, and the next check_block call on that block  *)
(* starts with that very statement.                                        *)
C10_BlockResumes ==
    /\ \A n \in DOMAIN ast :
           ast[n].kind = "Block" /\ ast[n].stopped_at >= 0 =>
               ast[n].statement_idx = ast[n].stopped_at
    /\ \A i \in Events :
           /\ IsBlockEvent(i, "stop") =>
                 \E j \in 1..(i - 1) :
                     /\ IsBlockEvent(j, "stmt") /\ trace[j].n = trace[i].n
                     /\ trace[j].cs = trace[i].cs
                     /\ \A k \in (j + 1)..(i - 1) :
                            ~(IsBlockEvent(k, "stmt") /\ trace[k].n = trace[i].n)
           /\ IsBlockEvent(i, "stmt") /\ ~IsBlockEvent(i - 1, "enter") =>
                 /\ IsRet(i - 1) /\ trace[i - 1].p = "check_statement"
                 /\ trace[i - 1].cs = Check_Success
           /\ IsBlockEvent(i, "enter") /\ trace[i].cs >= 0 =>
                 /\ i < Len(trace) /\ IsBlockEvent(i + 1, "stmt")
                 /\ trace[i + 1].n = trace[i].n
                 /\ trace[i + 1].cs = trace[i].cs

(* A block that stopped on its second statement or later has been entered  *)
(* again.                                                                  *)
C10_Witness ==
    \E i \in Events : IsBlockEvent(i, "enter") /\ trace[i].cs >= 1

-----------------------------------------------------------------------------
(* The procedures that have not returned yet when the one returning at i   *)
(* returns: the returns after i at a smaller depth with nothing shallower  *)
(* in between.                                                             *)
Ancestors(i) ==
    {j \in (i + 1)..Len(trace) :
        /\ IsRet(j) /\ trace[j].d < trace[i].d
        /\ \A k \in (i + 1)..(j - 1) : IsRet(k) => trace[k].d > trace[j].d}
IsBlockRet(i) == IsRet(i) /\ trace[i].p = "check_block"

(* C11: when a statement of a block returns Return_To_Symres, check_block  *)
(* sets the block's statement_idx to 0 and returns Return_To_Symres, and   *)
(* so does every block around it up to the entity, which goes back to      *)
(* symbol resolution with all of them at their first statement; the        *)
(* statement_idx of a block never exceeds the number of its statements.    *)
C11_ReturnToSymresResetsBlocks ==
    /\ \A n \in DOMAIN ast :
          ast[n].kind = "Block" => ast[n].statement_idx \in 0..Len(ast[n].body)
    /\ \A i \in Events :
          /\ JustChecked
          /\ IsRet(i) /\ trace[i].p = "check_statement"
          /\ trace[i].cs = Check_Return_To_Symres
          /\ trace[i].d > 1 /\ IsBlockRet(Enclosing(i))
          => /\ trace[Enclosing(i)].cs = Check_Return_To_Symres
             /\ ast[trace[Enclosing(i)].n].statement_idx = 0
             /\ \A j \in Ancestors(i) :
                   /\ trace[j].cs = Check_Return_To_Symres
                   /\ IsBlockRet(j) => ast[trace[j].n].statement_idx = 0
             /\ checked.cs = Check_Return_To_Symres
             /\ CheckedEntity.state = Entity_State_Resolve_Symbols

(* The second statement of a block that is the second statement of the     *)
(* function's body has returned Return_To_Symres.                          *)
C11_Witness ==
    /\ JustChecked
    /\ \E i, j \in Events :
          /\ IsBlockRet(i) /\ IsBlockRet(j) /\ j \in Ancestors(i)
          /\ trace[i].cs = Check_Return_To_Symres
          /\ \E k \in 1..(i - 1) : /\ IsBlockEvent(k, "stmt") /\ trace[k].n = trace[i].n
                                   /\ trace[k].cs >= 1
          /\ \E k \in 1..(j - 1) : /\ IsBlockEvent(k, "stmt") /\ trace[k].n = trace[j].n
                                   /\ trace[k].cs >= 1

-----------------------------------------------------------------------------
(* Switch statements: what the case list of switch n holds.                *)
IsCase(i, what) == trace[i].ev = "case" /\ trace[i].p = what
IsSwitchRet(i) == IsRet(i) /\ trace[i].p = "check_switch"
Covers(m, v) ==
    \/ ast[m].kind = "NumLit" /\ ast[m].value = v
    \/ ast[m].kind = "Range_Literal" /\ ast[ast[m].low].value <= v /\ v <= ast[ast[m].high].value
CaseEntries(n) ==
    {e \in (DOMAIN ast) \X (DOMAIN ast) \X {ast[m].value : m \in DOMAIN ast} :
        /\ \E k \in DOMAIN ast[n].cases : ast[n].cases[k] = e[1]
        /\ \E j \in DOMAIN ast[e[1]].values : ast[e[1]].values[j] = e[2]
        /\ Covers(e[2], e[3])}
(* The number of case entries that carry a value another entry carries     *)
(* already.                                                                *)
Collisions(n) == Cardinality(CaseEntries(n)) - Cardinality({e[3] : e \in CaseEntries(n)})
Reported(n) == Cardinality({i \in Events : IsCase(i, "collision") /\ trace[i].n = n})

Inserted(n) == {i \in Events : IsCase(i, "put") /\ trace[i].n = n}

(* C12, as the specification has it: when check_switch has gone through an *)
(* Integer switch in one call (every value of the case map was inserted by *)
(* this call), it has reported one "Multiple cases for values" error for   *)
(* each collision among the case values.                                   *)
C12_OneErrorPerCollision ==
    \A i \in Events :
        /\ JustChecked /\ IsSwitchRet(i)
        /\ trace[i].cs \in {Check_Success, Check_Error}
        /\ ast[trace[i].n].switch_kind = "Integer"
        /\ Cardinality(Inserted(trace[i].n)) = Cardinality(ast[trace[i].n].case_map)
        => Reported(trace[i].n) = Collisions(trace[i].n)

(* C12, as the code has it: the first case value that is in the case map   *)
(* already produces one "Multiple cases for values" error and check_switch *)
(* returns Error at once, so that one call reports at most one collision;  *)
(* a switch with overlapping case values never passes the check.           *)
C12_FirstCollisionStops ==
    \A i \in Events :
        /\ IsCase(i, "collision") =>
              /\ trace[i].cs \in ast[trace[i].n].case_map
              /\ i + 2 <= Len(trace)
              /\ IsReport(i + 1) /\ trace[i + 1].p = "onyx_report_error"
              /\ IsSwitchRet(i + 2) /\ trace[i + 2].n = trace[i].n
              /\ trace[i + 2].cs = Check_Error
        /\ JustChecked /\ IsSwitchRet(i) /\ trace[i].cs = Check_Success
           /\ ast[trace[i].n].switch_kind = "Integer"
           => Collisions(trace[i].n) = 0 /\ Reported(trace[i].n) = 0

(* A single value collides with a value of a range, and a value of a range *)
(* with a value of another range.                                          *)
C12_Witness ==
    /\ JustChecked
    /\ checked.cs = Check_Error
    /\ \E i \in Events :
          /\ IsCase(i, "collision")
          /\ \E m \in DOMAIN ast : ast[m].kind = "Range_Literal" /\ Covers(m, trace[i].cs)
    /\ (ast[9].kind = "Range_Literal" => ast[11].kind = "Range_Literal")


(* C20: a check_switch that is resumed after a yield never processes a     *)
(* case value again that it has processed already: a "Multiple cases"      *)
(* error is reported only for a value that two case entries carry, also    *)
(* when the check had stopped at a later value of a case with several      *)
(* values.                                                                 *)
C20_NoValueProcessedTwice ==
    \A i \in Events :
        JustChecked /\ IsCase(i, "collision") =>
            Cardinality({e \in CaseEntries(trace[i].n) : e[3] = trace[i].cs}) >= 2

-----------------------------------------------------------------------------
(* Pointer arithmetic.  b is a sum or a difference; Scaled(b) says that    *)
(* its right operand is n times the size of what its left operand p      *)
(* points to.                                                              *)
IsSum(b) == ast[b].kind = "Binary_Op" /\ ast[b].operation \in {"Add", "Minus"}
LeftType(b) == ast[ast[b].left].type
RightType(b) == ast[ast[b].right].type
IsProductFor(b, m) ==
    /\ ast[m].kind = "Binary_Op"
    /\ ast[m].operation = "Multiply"
    /\ type_is_integer(LeftType(m))
    /\ ast[ast[m].right].kind = "NumLit"
    /\ ast[ast[m].right].value = type_size_of(LeftType(b)[2])
(* The right operand is the product, or, for a compile-time n, the literal *)
(* that the check of the product has reduced it to.                        *)
Scaled(b) ==
    \/ IsProductFor(b, ast[b].right)
    \/ /\ ast[ast[b].right].kind = "NumLit"
       /\ "Comptime" \in ast[ast[b].right].flags
       /\ ast[b].right - 1 \in DOMAIN ast
       /\ IsProductFor(b, ast[b].right - 1)
       /\ "Comptime" \in ast[ast[b].right - 1].flags
IsBinaryopRet(i) == IsRet(i) /\ trace[i].p = "check_binaryop"

(* C13, as the specification has it: the check of a sum of a pointer and   *)
(* an integer, in either order, succeeds with the type of the pointer.     *)
C13_PointerSumCommutes ==
    \A i \in Events :
        /\ JustChecked /\ IsBinaryopRet(i) /\ IsSum(trace[i].n)
        /\ \/ TKind(LeftType(trace[i].n)) = "Pointer"
              /\ (type_is_integer(RightType(trace[i].n)) \/ Scaled(trace[i].n))
           \/ TKind(RightType(trace[i].n)) = "Pointer"
              /\ type_is_integer(LeftType(trace[i].n))
        => /\ trace[i].cs = Check_Success
           /\ TKind(ast[trace[i].n].type) = "Pointer"

(* C13, as the code has it: the check of  p + n  (and  p - n)  for a       *)
(* pointer p and an integer n succeeds, the right operand becomes          *)
(* n times the pointee size, and the sum and its right operand get the    *)
(* type of p;                                                              *)
(* with the pointer on the right the check reports the bad operation and   *)
(* returns Error, and the sum is left as it was.                           *)
C13_PointerPlusInteger ==
    \A i \in Events :
        JustChecked /\ IsBinaryopRet(i) /\ IsSum(trace[i].n) =>
            /\ TKind(LeftType(trace[i].n)) = "Pointer" =>
                  /\ ~type_is_integer(RightType(trace[i].n))
                  /\ \/ /\ trace[i].cs = Check_Success
                        /\ Scaled(trace[i].n)
                        /\ ast[trace[i].n].type = LeftType(trace[i].n)
                        /\ RightType(trace[i].n) = LeftType(trace[i].n)
                     \/ /\ trace[i].cs = Check_Error
                        /\ ~type_is_integer(RightType(trace[i].n))
                        /\ ast[ast[trace[i].n].right].kind # "Binary_Op"
            /\ TKind(RightType(trace[i].n)) = "Pointer" /\ type_is_integer(LeftType(trace[i].n)) =>
                  /\ trace[i].cs = Check_Error
                  /\ IsReport(i - 1)
                  /\ ast[trace[i].n].type = NULLT
                  /\ ast[ast[trace[i].n].right].kind # "Binary_Op"

(* The sum of a pointer and an integer has been checked with success, and  *)
(* it is scaled.                                                           *)
C13_Witness ==
    /\ JustChecked /\ checked.cs = Check_Success
    /\ \E i \in Events :
          /\ IsBinaryopRet(i) /\ IsSum(trace[i].n) /\ ast[trace[i].n].operation = "Add"
          /\ TKind(LeftType(trace[i].n)) = "Pointer" /\ Scaled(trace[i].n)

-----------------------------------------------------------------------------
(* Return types.  TypedProcedures(a) are the procedures of the tree a that *)
(* have a function type and ReturnTypeOf(a, f) its return type.            *)
TypedProcedures(a) == {f \in DOMAIN a : a[f].kind = "Function" /\ TKind(a[f].type) = "Function"}
ReturnTypeOf(a, f) == a[f].type[2]
SuccessfulReturns(t) ==
    {i \in DOMAIN t : t[i].ev = "ret" /\ t[i].p = "check_return" /\ t[i].cs = Check_Success}
FirstReturn(t) == CHOOSE i \in SuccessfulReturns(t) : \A k \in SuccessfulReturns(t) : i <= k

(* C14: a return type that is the auto-return placeholder is defined once: *)
(* by the first return statement checked (the type of its expression,     *)
(* void for a bare return), or as void by a check_function that succeeds   *)
(* with no return checked; from then on it never changes, a return passes  *)
(* the check only if it agrees with it (an expression of that type, or no  *)
(* expression for a type of size 0), and after a successful check_function *)
(* the return type is not the placeholder.                                 *)
C14_ReturnTypeDefinedOnce ==
    [][ /\ \A f \in TypedProcedures(ast) :
              /\ ReturnTypeOf(ast, f) # type_auto_return
                    => ReturnTypeOf(ast', f) = ReturnTypeOf(ast, f)
              /\ ReturnTypeOf(ast, f) = type_auto_return /\ ReturnTypeOf(ast', f) # type_auto_return
                    => IF SuccessfulReturns(trace') = {}
                       THEN ReturnTypeOf(ast', f) = T_void /\ checked'.cs = Check_Success
                       ELSE ReturnTypeOf(ast', f) =
                               IF ast'[trace'[FirstReturn(trace')].n].expr = NoNode THEN T_void
                               ELSE ast'[ast'[trace'[FirstReturn(trace')].n].expr].type
        /\ \A i \in DOMAIN trace' :
              /\ checked' # NoCheck /\ i \in SuccessfulReturns(trace')
                    => IF ast'[trace'[i].n].expr = NoNode
                       THEN Basic_size(ReturnTypeOf(ast', ents'[checked'.e].node)) = 0
                       ELSE types_are_compatible(ast'[ast'[trace'[i].n].expr].type,
                                                 ReturnTypeOf(ast', ents'[checked'.e].node))
              /\ (trace'[i].ev = "ret" /\ trace'[i].p = "check_function"
                    /\ trace'[i].cs = Check_Success)
                    => ReturnTypeOf(ast', trace'[i].n) # type_auto_return ]_vars

(* The first return has defined the return type as that of its expression  *)
(* and the bare return after it is an Error.                               *)
C14_Witness ==
    /\ JustChecked /\ checked.cs = Check_Error
    /\ \E i, j \in Events :
          /\ i < j
          /\ trace[i].ev = "rtype" /\ trace[i].cs = 1
          /\ ReturnTypeOf(ast, trace[i].n) = T_i32
          /\ IsRet(j) /\ trace[j].p = "check_return" /\ trace[j].cs = Check_Error
          /\ ast[trace[j].n].expr = NoNode


(***************************************************************************)
(* C15: the implicit self argument of a method call                        *)
(***************************************************************************)
MethodCalls(a) == { m \in DOMAIN a : a[m].kind = "Method_Call" }

(* The address-of node made for the receiver was taken out again by        *)
(* check_address_of (1475-1546) during the check.                          *)
AddressOfRemoved(t) ==
    \E i \in DOMAIN t : /\ t[i].ev = "ret"
                        /\ t[i].p = "check_address_of"
                        /\ t[i].cs = Check_Yield_Macro

(* v is what check_method_call passes for the receiver r in the tree a.    *)
IsSelfValue(a, t, v, r) ==
    IF TKind(a[r].type) = "Pointer" THEN v = r
    ELSE \/ /\ a[v].kind = "Address_Of"
            /\ a[v].can_be_removed
            /\ a[v].expr = r
         \/ v = r /\ AddressOfRemoved(t)

(* C15: over every step of the program, the arguments of a method call     *)
(* that has not been marked checked stay as written; in the step that      *)
(* marks it, exactly one new argument node is put in front of them, whose  *)
(* value is the receiver if the receiver is a pointer and otherwise a      *)
(* removable address-of node of the receiver; after that the arguments     *)
(* written so far keep their places, so the self argument is never         *)
(* inserted a second time.                                                 *)
C15_SelfInsertedOnce ==
    [][\A m \in MethodCalls(ast) :
         IF "Has_Been_Checked" \in ast[m].flags
         THEN /\ Len(ast'[ast[m].right].values) >= Len(ast[ast[m].right].values)
              /\ SubSeq(ast'[ast[m].right].values, 1, Len(ast[ast[m].right].values))
                    = ast[ast[m].right].values
         ELSE IF "Has_Been_Checked" \in ast'[m].flags
         THEN /\ Len(ast'[ast[m].right].values) > Len(ast[ast[m].right].values)
              /\ SubSeq(ast'[ast[m].right].values, 2, Len(ast[ast[m].right].values) + 1)
                    = ast[ast[m].right].values
              /\ ast'[ast[m].right].values[1] \notin DOMAIN ast
              /\ ast'[ast'[ast[m].right].values[1]].kind = "Argument"
              /\ IsSelfValue(ast', trace', ast'[ast'[ast[m].right].values[1]].value,
                             ast[m].left)
         ELSE ast'[ast[m].right].values = ast[ast[m].right].values]_vars

(* A method call on a receiver that is not a pointer was re-entered after  *)
(* a yield and has passed: its call has the self argument and the written  *)
(* one, in this order.                                                     *)
C15_Witness ==
    /\ scen = "method"
    /\ JustChecked
    /\ checked.cs = Check_Success
    /\ checked.before.macro_attempts + checked.before.micro_attempts > 0
    /\ \E m \in MethodCalls(ast) :
         /\ "Has_Been_Checked" \in ast[m].flags
         /\ TKind(ast[ast[m].left].type) # "Pointer"
         /\ Len(ast[ast[m].right].values) = 2
         /\ ast[ast[m].right].values[2] = 5


(***************************************************************************)
(* C16: the constraints of a procedure                                     *)
(***************************************************************************)
IsContextRet(t, i) == t[i].ev = "ret" /\ t[i].p = "check_constraint_context"
ReportsIn(t) ==
    Cardinality({ j \in DOMAIN t : t[j].ev = "report" /\ t[j].p = "onyx_report_error" })
Has(st, what) == \E k \in DOMAIN st : st[k] = what
AllSuccess(st) == \A k \in DOMAIN st : st[k] = "Success"
(* The first constraint, in the order of the list, that is not met.        *)
FirstOpen(st) == CHOOSE k \in DOMAIN st : st[k] # "Success" /\ \A j \in 1..(k - 1) : st[j] = "Success"

(* C16, as the specification has it: a call of check_constraint_context    *)
(* on a context whose constraints have been queued yields (or, once a      *)
(* cycle is detected, turns the yield into an error) if any constraint is  *)
(* Queued; if any is Failed it returns Error with three diagnostics when   *)
(* produce_errors is set and Failed with none when it is not; and          *)
(* constraints_met is set only when every constraint is Success.           *)
C16_AnyQueuedYieldsAnyFailedErrors ==
    [][\A i \in DOMAIN trace' :
         /\ checked' # NoCheck
         /\ IsContextRet(trace', i)
         /\ ast[trace'[i].n].constraint_checks # <<"none">>
         /\ ~ast[trace'[i].n].constraints_met
         =>
         /\ Has(ast[trace'[i].n].constraint_checks, "Queued")
              => trace'[i].cs = Check_Yield_Macro \/ trace'[i].cd
         /\ Has(ast[trace'[i].n].constraint_checks, "Failed")
              => IF ast'[trace'[i].n].produce_errors
                 THEN trace'[i].cs = Check_Error /\ ReportsIn(trace') = 3
                 ELSE trace'[i].cs = Check_Failed /\ ReportsIn(trace') = 0
         /\ ast'[trace'[i].n].constraints_met
              => AllSuccess(ast[trace'[i].n].constraint_checks)]_vars

(* C16, as the code has it: the first call queues every constraint and     *)
(* returns Yield_Macro.  A later call is decided by the first constraint   *)
(* of the list that is not Success.  If there is none, constraints_met is  *)
(* set and Success returned.  If it is Failed, the call returns Error      *)
(* after three diagnostics when produce_errors is set and Failed with no   *)
(* diagnostic when it is not, whatever is Queued after it.  If it is       *)
(* Queued, the call yields (Error with one diagnostic once a cycle is      *)
(* detected), whatever has Failed after it.  constraints_met is set in no  *)
(* other case.                                                             *)
C16_FirstOpenConstraintDecides ==
    [][\A i \in DOMAIN trace' :
         checked' # NoCheck /\ IsContextRet(trace', i)
         =>
         IF ast[trace'[i].n].constraint_checks = <<"none">>
         THEN /\ trace'[i].cs = Check_Yield_Macro
              /\ ReportsIn(trace') = 0
              /\ ast'[trace'[i].n].constraint_checks
                    = [k \in 1..Len(ast[trace'[i].n].constraints) |-> "Queued"]
              /\ ~ast'[trace'[i].n].constraints_met
         ELSE IF ast[trace'[i].n].constraints_met
         THEN trace'[i].cs = Check_Success /\ ast'[trace'[i].n].constraints_met
         ELSE IF AllSuccess(ast[trace'[i].n].constraint_checks)
         THEN /\ trace'[i].cs = Check_Success
              /\ ReportsIn(trace') = 0
              /\ ast'[trace'[i].n].constraints_met
         ELSE /\ ~ast'[trace'[i].n].constraints_met
              /\ ast'[trace'[i].n].constraint_checks = ast[trace'[i].n].constraint_checks
              /\ IF ast[trace'[i].n].constraint_checks[
                        FirstOpen(ast[trace'[i].n].constraint_checks)] = "Failed"
                 THEN IF ast'[trace'[i].n].produce_errors
                      THEN trace'[i].cs = Check_Error /\ ReportsIn(trace') = 3
                      ELSE trace'[i].cs = Check_Failed /\ ReportsIn(trace') = 0
                 ELSE IF trace'[i].cd
                      THEN trace'[i].cs = Check_Error /\ ReportsIn(trace') = 1
                      ELSE trace'[i].cs = Check_Yield_Macro /\ ReportsIn(trace') = 0]_vars

(* With errors suppressed, a context whose first constraint is met, whose  *)
(* second has failed, has returned Failed and reported nothing.            *)
C16_Witness ==
    /\ scen = "constraint"
    /\ JustChecked
    /\ \E i \in Events :
         /\ IsContextRet(trace, i)
         /\ trace[i].cs = Check_Failed
         /\ ast[trace[i].n].constraint_checks = <<"Success", "Failed">>
         /\ ~ast[trace[i].n].produce_errors
         /\ ReportsIn(trace) = 0


(***************************************************************************)
(* C17: a[i] = v with Subscript_Equals overloads                           *)
(***************************************************************************)
(* The check of an assignment to a subscript has returned at event i of    *)
(* the log, with Subscript_Equals overloads present.                       *)
IsSubscriptAssignRet(i) ==
    /\ JustChecked
    /\ IsBinaryopRet(i)
    /\ ast[trace[i].n].operation = "Assign"
    /\ ast[ast[trace[i].n].left].kind = "Subscript"
    /\ env.ovl["Subscript_Equals"] # "none"

(* The operands a, i and v have been checked and the lookup was made.      *)
LookupMade(n) == ast[n].potential_substitute # NoNode

(* k is a call of the overload with the arguments (a, i, v) of n.          *)
IsOverloadCall(k, n) ==
    /\ ast[k].kind = "Call"
    /\ ast[k].callee = env.ovl_fn
    /\ Len(ast[k].values) = 3
    /\ \A j \in 1..3 : ast[ast[k].values[j]].kind = "Argument"
    /\ ast[ast[k].values[1]].value = ast[ast[n].left].left
    /\ ast[ast[k].values[2]].value = ast[ast[n].left].right
    /\ ast[ast[k].values[3]].value = ast[n].right

(* The statements that blocks hold.                                        *)
Statements ==
    { ast[b].body[j] : <<b, j>> \in { x \in (DOMAIN ast) \X (1..MaxNodes) :
                                        ast[x[1]].kind = "Block" /\ x[2] <= Len(ast[x[1]].body) } }

(* C17: when the check of the statement  a[i] = v  returns with            *)
(* Subscript_Equals overloads present and the operands checked: if an      *)
(* overload matches, the statement is now a call of that overload with the *)
(* arguments (a, i, v), the call has just been checked and its status      *)
(* decides the result; if none matches, the statement is still the         *)
(* assignment, no call was checked in its place, and a successful check    *)
(* has gone through check_binaryop_assignment; if the lookup signals a     *)
(* yield, the check yields (Error once a cycle is detected) and the        *)
(* statement is still the assignment.  If an operand did not check, the    *)
(* statement is the assignment and the check returns the operand's status. *)
C17_SubscriptEqualsOverload ==
    \A i \in Events :
        IsSubscriptAssignRet(i) =>
            IF ~LookupMade(trace[i].n)
            THEN /\ trace[i].cs > Check_Errors_Start
                 /\ trace[i].n \in Statements
            ELSE CASE env.ovl["Subscript_Equals"] = "match" ->
                      /\ trace[i].n \notin Statements
                      /\ i > 2
                      /\ trace[i - 1].ev = "CHECK"
                      /\ trace[i - 2].ev = "ret" /\ trace[i - 2].p = "check_call"
                      /\ trace[i - 2].n \in Statements
                      /\ IsOverloadCall(trace[i - 2].n, trace[i].n)
                      /\ trace[i].cs = IF trace[i - 2].cs > Check_Errors_Start
                                       THEN trace[i - 2].cs ELSE Check_Success
                   [] env.ovl["Subscript_Equals"] = "yield" ->
                      /\ trace[i].n \in Statements
                      /\ ast[trace[i].n].kind = "Binary_Op"
                      /\ trace[i].cs = IF trace[i].cd THEN Check_Error ELSE Check_Yield_Macro
                      /\ trace[i - 1].ev = "YIELD"
                   [] OTHER ->
                      /\ trace[i].n \in Statements
                      /\ \A j \in Events : ~(trace[j].ev = "ret" /\ trace[j].p = "check_call")
                      /\ trace[i].cs = Check_Success =>
                            \E j \in 1..(i - 1) :
                                /\ trace[j].ev = "ret"
                                /\ trace[j].p = "check_binaryop_assignment"
                                /\ trace[j].n = trace[i].n
                                /\ trace[j].cs = Check_Success

(* An overload has matched a[i] = v on a re-entry: the statement is the    *)
(* call, and the call has passed.                                          *)
C17_Witness ==
    /\ scen = "subscript_equals"
    /\ checked.before.macro_attempts + checked.before.micro_attempts > 0
    /\ \E i \in Events :
         /\ IsSubscriptAssignRet(i)
         /\ trace[i].cs = Check_Success
         /\ trace[i].n \notin Statements
         /\ \E k \in Statements : IsOverloadCall(k, trace[i].n)

(* No overload matches a[i] = v with a: ^i32, and the statement has passed *)
(* as an assignment.                                                       *)
C17_WitnessOrdinary ==
    /\ scen = "subscript_equals"
    /\ env.ovl["Subscript_Equals"] = "nomatch"
    /\ \E i \in Events :
         /\ IsSubscriptAssignRet(i)
         /\ trace[i].cs = Check_Success
         /\ trace[i].n \in Statements


(***************************************************************************)
(* C18: the type of a loop variable                                        *)
(***************************************************************************)
IsForRet(i) == IsRet(i) /\ trace[i].p = "check_for"

(* The type of what the for node n iterates over; an integer iterable h    *)
(* has become the range literal 0 .. h.                                    *)
IterType(n) ==
    IF ast[ast[n].iter].kind = "Range_Literal"
    THEN ast[ast[ast[n].iter].high].type
    ELSE ast[ast[n].iter].type

LowMemberType == type_lookup_member(T_Struct("range"), "low").type

(* check_for has returned Success or Error for an iterable of known type,  *)
(* and the Error is not a yield made under cycle_detected.                 *)
ForSettled(i) ==
    /\ JustChecked
    /\ IsForRet(i)
    /\ ~trace[i].cd
    /\ trace[i].cs \in {Check_Success, Check_Error}
    /\ IterType(trace[i].n) # NULLT

(* What the loop variable of the for node n is to be for an iterable of    *)
(* element type e when check_for has returned cs: with by_pointer either   *)
(* an Error (pointer = FALSE) or a pointer to e and Cannot_Take_Addr.      *)
LoopVariableIs(n, cs, e, pointer) ==
    IF ast[n].by_pointer
    THEN IF pointer
         THEN /\ ast[ast[n].var].type = T_Pointer(e)
              /\ "Cannot_Take_Addr" \in ast[ast[n].var].flags
         ELSE cs = Check_Error /\ "Has_Been_Checked" \notin ast[n].flags
    ELSE ast[ast[n].var].type = e

(* C18, as the specification has it: when check_for has settled, the loop  *)
(* variable has the type of the range's low member for an integer or a     *)
(* range iterable, the element type for an Array, Slice, DynArray or       *)
(* VarArgs iterable and the first polymorph solution for an Iterator; with *)
(* by_pointer it is a pointer to the element and marked Cannot_Take_Addr   *)
(* over Array, Slice and DynArray, and the check returns Error over a      *)
(* range, VarArgs or Iterator.                                             *)
C18_LoopVariableType ==
    \A i \in Events :
        ForSettled(i) =>
            CASE IterType(trace[i].n) \in {T_i32, T_Struct("range")} ->
                    LoopVariableIs(trace[i].n, trace[i].cs, LowMemberType, FALSE)
              [] TKind(IterType(trace[i].n)) \in {"Array", "Slice", "DynArray"} ->
                    LoopVariableIs(trace[i].n, trace[i].cs, IterType(trace[i].n)[2], TRUE)
              [] TKind(IterType(trace[i].n)) = "VarArgs" ->
                    LoopVariableIs(trace[i].n, trace[i].cs, IterType(trace[i].n)[2], FALSE)
              [] type_struct_constructed_from_poly_struct(IterType(trace[i].n)) ->
                    LoopVariableIs(trace[i].n, trace[i].cs, IterType(trace[i].n)[3], FALSE)
              [] OTHER -> TRUE

(* The same, for the code: an iterable of the range type is taken for a    *)
(* range only if builtin_range_type_type, which check_range_literal        *)
(* assigns (1395), is that type already; if it is still null the loop type *)
(* stays Invalid, the variable gets no type and the check returns Error.   *)
C18_LoopVariableTypeOnceRangeIsKnown ==
    \A i \in Events :
        ForSettled(i) =>
            CASE IterType(trace[i].n) = T_i32 ->
                    LoopVariableIs(trace[i].n, trace[i].cs, LowMemberType, FALSE)
              [] IterType(trace[i].n) = T_Struct("range") ->
                    IF builtin_range_type_type = T_Struct("range")
                    THEN LoopVariableIs(trace[i].n, trace[i].cs, LowMemberType, FALSE)
                    ELSE /\ trace[i].cs = Check_Error
                         /\ ast[ast[trace[i].n].var].type = NULLT
                         /\ ast[trace[i].n].loop_type = "Invalid"
              [] TKind(IterType(trace[i].n)) \in {"Array", "Slice", "DynArray"} ->
                    LoopVariableIs(trace[i].n, trace[i].cs, IterType(trace[i].n)[2], TRUE)
              [] TKind(IterType(trace[i].n)) = "VarArgs" ->
                    LoopVariableIs(trace[i].n, trace[i].cs, IterType(trace[i].n)[2], FALSE)
              [] type_struct_constructed_from_poly_struct(IterType(trace[i].n)) ->
                    LoopVariableIs(trace[i].n, trace[i].cs, IterType(trace[i].n)[3], FALSE)
              [] OTHER -> trace[i].cs = Check_Error

(* A loop over a value of the range type has returned Error because no     *)
(* range literal had been checked before it.                               *)
C18_Witness ==
    /\ scen = "for"
    /\ \E i \in Events :
         /\ ForSettled(i)
         /\ IterType(trace[i].n) = T_Struct("range")
         /\ ~ast[trace[i].n].by_pointer
         /\ trace[i].cs = Check_Error
         /\ builtin_range_type_type = NULLT


(***************************************************************************)
(* C19: compile time operands                                              *)
(***************************************************************************)
IsComptime(n) == "Comptime" \in ast[n].flags
IsUnaryopRet(i) == IsRet(i) /\ trace[i].p = "check_unaryop"

(* The check of the entity's own expression has returned Success at event  *)
(* i of the log; CheckedEntity.node is what the expression is now.         *)
IsRootSuccess(i) ==
    /\ JustChecked
    /\ trace[i].n = checked.before.node
    /\ trace[i].cs = Check_Success
    /\ checked.before.type = "Expression"

BothOperandsComptime(n) == IsComptime(ast[n].left) /\ IsComptime(ast[n].right)

(* C19, as the specification has it: after a successful check of a binary  *)
(* or unary operation whose operands are all Comptime, the expression is   *)
(* the operation marked Comptime or a literal marked Comptime; and after a *)
(* successful check a binary operation is marked Comptime exactly when     *)
(* both of its operands are.                                               *)
C19_ComptimeResult ==
    \A i \in Events :
        /\ JustChecked /\ IsBinaryopRet(i) /\ trace[i].cs = Check_Success
              => (IsComptime(trace[i].n) <=> BothOperandsComptime(trace[i].n))
        /\ IsRootSuccess(i) /\ IsBinaryopRet(i) /\ BothOperandsComptime(trace[i].n)
              => /\ IsComptime(CheckedEntity.node)
                 /\ ast[CheckedEntity.node].kind \in {"Binary_Op", "NumLit"}
        /\ IsRootSuccess(i) /\ IsUnaryopRet(i) /\ IsComptime(ast[trace[i].n].expr)
              => /\ IsComptime(CheckedEntity.node)
                 /\ ast[CheckedEntity.node].kind \in {"Unary_Op", "NumLit"}

(* C19, as the code has it: the same, except that a binary operation on    *)
(* Comptime operands one of which has a type that is not basic is first    *)
(* offered to the operator overloads (1072-1088); when one matches, the    *)
(* expression becomes a call of the overload, which is not Comptime.  A    *)
(* unary operation on a Comptime operand is always replaced by its         *)
(* literal, and one on another operand is left in place and unmarked.      *)
C19_ComptimeResultOrOverloadCall ==
    \A i \in Events :
        /\ JustChecked /\ IsBinaryopRet(i) /\ trace[i].cs = Check_Success
              => (IsComptime(trace[i].n) <=> BothOperandsComptime(trace[i].n))
        /\ IsRootSuccess(i) /\ IsBinaryopRet(i) /\ BothOperandsComptime(trace[i].n)
              => \/ /\ IsComptime(CheckedEntity.node)
                    /\ ast[CheckedEntity.node].kind \in {"Binary_Op", "NumLit"}
                 \/ /\ ast[CheckedEntity.node].kind = "Call"
                    /\ ast[CheckedEntity.node].callee = env.ovl_fn
                    /\ env.ovl[ast[trace[i].n].operation] = "match"
                    /\ \/ TKind(ast[ast[trace[i].n].left].type) # "Basic"
                       \/ TKind(ast[ast[trace[i].n].right].type) # "Basic"
        /\ IsRootSuccess(i) /\ IsUnaryopRet(i)
              => IF IsComptime(ast[trace[i].n].expr)
                 THEN /\ IsComptime(trace[i].n)
                      /\ IsComptime(CheckedEntity.node)
                      /\ ast[CheckedEntity.node].kind = "NumLit"
                 ELSE /\ CheckedEntity.node = trace[i].n
                      /\ ~IsComptime(trace[i].n)

(* The sum of two literals has been checked: it is marked Comptime and the *)
(* expression is now its literal.                                          *)
C19_Witness ==
    /\ scen = "comptime"
    /\ \E i \in Events :
         /\ IsRootSuccess(i)
         /\ IsBinaryopRet(i)
         /\ ast[trace[i].n].operation = "Add"
         /\ BothOperandsComptime(trace[i].n)
         /\ IsComptime(trace[i].n)
         /\ ast[CheckedEntity.node].kind = "NumLit"
         /\ CheckedEntity.node # trace[i].n

(***************************************************************************)
(* C21: the cached argument tuple of operator overloading                  *)
(***************************************************************************)

IsLookup(t, i) == t[i].ev = "lookup"

(* C21: whenever the overload picker is called for a binary operation, it  *)
(* receives a tuple whose every entry is an Argument node: the tuple       *)
(* cached in overload_args is complete whenever it is non-null, also on    *)
(* the entry after the speculative address-of check of an assignment      *)
(* operator yielded or failed.                                             *)
C21_PickerGetsArguments ==
    \A i \in Events : JustChecked /\ IsLookup(trace, i) => trace[i].cs = 1

(* What does hold: a tuple that is built in the same entry in which the    *)
(* picker is called is complete; the picker gets an incomplete tuple only  *)
(* on an entry that found overload_args non-null already.                  *)
C21_TupleBuiltInSameEntryIsComplete ==
    [][\A i \in DOMAIN trace' :
          checked' # NoCheck /\ IsLookup(trace', i) /\ trace'[i].cs = 0 =>
              /\ trace'[i].n \in DOMAIN ast
              /\ ast[trace'[i].n].has_overload_args
              /\ \E k \in DOMAIN ast[trace'[i].n].overload_args :
                     ast[trace'[i].n].overload_args[k] = GARBAGE]_vars

(* The picker is called on a later entry with the tuple an earlier entry   *)
(* had completed.                                                          *)
C21_Witness ==
    /\ JustChecked
    /\ scen = "probe"
    /\ checked.before.macro_attempts > 0
    /\ \E i \in Events : IsLookup(trace, i) /\ trace[i].cs = 1
    /\ ~\E i \in Events : trace[i].ev = "ret" /\ trace[i].p = "check_address_of"

(***************************************************************************)
(* C22: when a call is marked Has_Been_Checked                             *)
(***************************************************************************)
IsCallNode(n) == n \in DOMAIN ast /\ ast[n].kind \in {"Call", "Intrinsic_Call"}
IsCallMarked(i) ==
    /\ trace[i].ev = "flag" /\ trace[i].p = "Has_Been_Checked"
    /\ IsCallNode(trace[i].n)
IsCallRet(i) == IsRet(i) /\ trace[i].p = "check_call" /\ IsCallNode(trace[i].n)
IsCalleeOf(j, n) == trace[j].ev = "callee" /\ trace[j].n = n

(* The callee f of call n has a type of kind Function, its constraints are *)
(* met if it has any, every formal parameter has an argument value, and    *)
(* the return type is not auto_return unless the call names a macro.       *)
CalleeReady(n, f) ==
    /\ f > NoNode
    /\ TKind(ast[f].type) = "Function"
    /\ (ast[f].has_constraints => ast[f].constraints_met)
    /\ Len(ast[n].values) >= ast[f].type[3]
    /\ \A k \in DOMAIN ast[n].values :
           ast[n].values[k] > NoNode /\ ast[ast[n].values[k]].kind = "Argument"
    /\ \/ ast[f].type[2] # type_auto_return
       \/ (ast[n].callee > NoNode /\ ast[ast[n].callee].kind = "Macro")

(* The callee of call n as far as it is known at event i: what             *)
(* check_resolve_callee found last, or the callee expression.              *)
CalleeAt(i, n) ==
    IF \E j \in 1..i : IsCalleeOf(j, n)
    THEN trace[CHOOSE j \in 1..i : IsCalleeOf(j, n)
                                   /\ \A k \in 1..i : IsCalleeOf(k, n) => k <= j].cs
    ELSE ast[n].callee

MarkedOnlyWhenReady(i) ==
    IsCallMarked(i) =>
        \E j \in 1..i : IsCalleeOf(j, trace[i].n) /\ CalleeReady(trace[i].n, trace[j].cs)

C22_WitnessArgument ==
    /\ JustChecked
    /\ scen = "args"
    /\ ast[2].kind = "Function" /\ ast[2].has_constraints /\ ~ast[2].constraints_met
    /\ checked.cs = Check_Return_To_Symres
    /\ "Has_Been_Checked" \notin ast[1].flags

(***************************************************************************)
(* C23: the order of init_procedures                                       *)
(***************************************************************************)
InitDirectives == {n \in DOMAIN ast : ast[n].kind = "Directive_Init"}
Dependencies(n) == {ast[n].deps[k] : k \in DOMAIN ast[n].deps}
IsFinalizedInit(d) ==
    /\ ast[d].kind = "Directive_Init"
    /\ ents[ast[d].entity].state = Entity_State_Finalized
PositionsOf(f) == {i \in DOMAIN init_procedures : init_procedures[i] = f}
IsDirectiveRet(i) ==
    /\ IsRet(i) /\ trace[i].p = "check_process_directive"
    /\ trace[i].n \in InitDirectives

(* An #init procedure is in init_procedures only when every dependency of  *)
(* its directive is a Finalized #init, and it comes after the procedures   *)
(* of all of them.                                                         *)
AppendedAfterDependencies ==
    \A n \in InitDirectives : \A i \in PositionsOf(ast[n].init_proc) :
        \A d \in Dependencies(n) :
            /\ IsFinalizedInit(d)
            /\ \E j \in PositionsOf(ast[d].init_proc) : j < i

(* The first dependency of n that is not a Finalized #init, 0 if none.     *)
FirstOpenDependency(n) ==
    IF \A d \in Dependencies(n) : IsFinalizedInit(d) THEN NoNode
    ELSE ast[n].deps[CHOOSE k \in DOMAIN ast[n].deps :
                        /\ ~IsFinalizedInit(ast[n].deps[k])
                        /\ \A m \in 1..(k - 1) : IsFinalizedInit(ast[n].deps[m])]

YieldsOrCycleError(i) ==
    IF trace[i].cd THEN trace[i].cs = Check_Error ELSE trace[i].cs = Check_Yield_Macro

C23_WitnessCycle ==
    /\ JustChecked
    /\ scen = "init"
    /\ cycle_detected
    /\ ast[1].deps = <<2>> /\ ast[2].deps = <<1>>
    /\ checked.cs = Check_Error
    /\ init_procedures = <<>>

(***************************************************************************)
(* C24: the phases of a constraint                                         *)
(***************************************************************************)
ReportStatus(a, f, i) ==
    IF a[f].constraint_checks = <<"none">> THEN "none" ELSE a[f].constraint_checks[i]

(* The step is a check of the entity of constraint k.                      *)
IsCheckOf(k) ==
    /\ checked' # NoCheck
    /\ checked'.before.type = "Constraint_Check"
    /\ checked'.before.node = k

(* The expressions that check_constraint itself handed to check_expression *)
(* in this step, in the order of the calls.                                *)
IsExpressionOfConstraint(e) == e.ev = "ret" /\ e.p = "check_expression" /\ e.d = 2
ExpressionsChecked == SelectSeq(trace', IsExpressionOfConstraint)

(* C24: a constraint moves from Cloning_Expressions to Checking_Expressions *)
(* once and never back; the move is made by the check that clones the      *)
(* interface's expressions and returns Return_To_Symres; afterwards the    *)
(* expressions are checked in order from expr_idx on, and expr_idx only    *)
(* increases; the report status is written once, to Failed by the check    *)
(* that returns Failed or to Success by the check that returns Complete.   *)
C24_ConstraintPhases ==
    [][\A f \in DOMAIN ast : \A i \in DOMAIN ast[f].constraints :
          LET k == ast[f].constraints[i]
              before == ReportStatus(ast, f, i)
              after == ReportStatus(ast', f, i)
          IN
          /\ ast[k].phase = "Checking_Expressions"
                => /\ ast'[k].phase = "Checking_Expressions"
                   /\ Len(ast'[k].values) = Len(ast[k].values)
          /\ ast[k].phase # ast'[k].phase
                => /\ IsCheckOf(k)
                   /\ checked'.cs = Check_Return_To_Symres
                   /\ Len(ast'[k].values) = Len(ast[ast[k].interface].values)
                   /\ \A j \in DOMAIN ast'[k].values : ast'[k].values[j] \notin DOMAIN ast
          /\ ast'[k].expr_idx >= ast[k].expr_idx
          /\ (IsCheckOf(k) /\ ast[k].phase = "Checking_Expressions")
                => /\ \A j \in DOMAIN ExpressionsChecked :
                          /\ ast[k].expr_idx + j \in DOMAIN ast[k].values
                          /\ ExpressionsChecked[j].n = ast[k].values[ast[k].expr_idx + j]
                   /\ ast'[k].expr_idx \in {Len(ExpressionsChecked) + ast[k].expr_idx,
                                            Len(ExpressionsChecked) + ast[k].expr_idx - 1}
          /\ before \in {"Success", "Failed"} => after = before
          /\ (IsCheckOf(k) /\ checked'.cs = Check_Failed)
                <=> (before = "Queued" /\ after = "Failed")
          /\ (IsCheckOf(k) /\ checked'.cs = Check_Complete)
                <=> (before = "Queued" /\ after = "Success")]_vars

(* A constraint whose second expression had to wait is complete, both      *)
(* expressions passed.                                                     *)
C24_Witness ==
    /\ JustChecked
    /\ scen = "interface"
    /\ checked.before.type = "Constraint_Check"
    /\ checked.before.macro_attempts > 0
    /\ checked.cs = Check_Complete
    /\ ast[2].phase = "Checking_Expressions"
    /\ ast[2].expr_idx = 2
    /\ ast[1].constraint_checks = <<"Success">>

(* A constraint fails at its second expression.                            *)
C24_WitnessFailed ==
    /\ JustChecked
    /\ scen = "interface"
    /\ checked.before.type = "Constraint_Check"
    /\ checked.cs = Check_Failed
    /\ ast[2].expr_idx = 1
    /\ ast[1].constraint_checks = <<"Failed">>

(***************************************************************************)
(* C25: the solutions of a polymorphic query                               *)
(***************************************************************************)
IsPolyQuery(a, q) == a[q].kind = "Poly_Query"

(* The step is a check of the entity of query q.                           *)
IsQueryCheckOf(q) ==
    /\ checked' # NoCheck
    /\ checked'.before.type = "Polymorph_Query"
    /\ checked'.before.node = q

EverySolutionRecorded(a, q) ==
    \A i \in 1..a[q].poly_params : \E j \in DOMAIN a[q].slns : a[q].slns[j] = i

NoSolutionTwice(a, q) ==
    \A j, k \in DOMAIN a[q].slns : a[q].slns[j] = a[q].slns[k] => j = k

(* The variables solved by the check that just ended.                      *)
SolvedInThisPass ==
    { trace[i].cs : i \in { j \in DOMAIN trace : trace[j].ev = "solved" } }

(* C25: a check of a polymorphic query returns Complete exactly when slns  *)
(* then holds a solution for every polymorphic parameter, and slns never   *)
(* holds two solutions for one variable, over all passes.                  *)
C25_CompleteWhenAllSolved ==
    [][\A q \in DOMAIN ast : IsPolyQuery(ast, q) =>
          /\ IsQueryCheckOf(q)
                => (checked'.cs = Check_Complete <=> EverySolutionRecorded(ast', q))
          /\ NoSolutionTwice(ast', q)
          /\ \A j \in DOMAIN ast[q].slns :
                j \in DOMAIN ast'[q].slns /\ ast'[q].slns[j] = ast[q].slns[j]]_vars

(* A query is complete after a pass that solved only one of its two        *)
(* variables: the other solution is from an earlier pass.                  *)
C25_Witness ==
    /\ JustChecked
    /\ scen = "polyquery"
    /\ checked.before.type = "Polymorph_Query"
    /\ checked.cs = Check_Complete
    /\ Len(ast[1].slns) = 2
    /\ Cardinality(SolvedInThisPass) = 1

(***************************************************************************)
(* C26: a polymorphic variable that cannot be solved in this pass          *)
(***************************************************************************)
(* The i-th event is an answer YIELD or FAILED of find_polymorphic_sln.    *)
IsOpenVariable(t, i) == t[i].ev = "open" /\ t[i].p \in {"YIELD", "FAILED"}

IsQueryEvent(t, j) == t[j].ev \in {"open", "solved"}

SolvedBefore(t, i) == \E j \in 1..(i - 1) : t[j].ev = "solved"

GoesOnAfter(t, i) == \E j \in (i + 1)..Len(t) : IsQueryEvent(t, j)

ReportedAfter(t, i) == \E j \in (i + 1)..Len(t) : t[j].ev = "report"

(* Every variable after the one of event i was looked at in this pass:     *)
(* its solution was in slns already, or the solver was asked, or it was    *)
(* solved as a known solution.                                             *)
RestExamined(t, i, q) ==
    \A v \in (t[i].cs + 1)..ast[q].poly_params :
        \/ \E j \in DOMAIN ast[q].slns : ast[q].slns[j] = v
        \/ \E j \in (i + 1)..Len(t) : IsQueryEvent(t, j) /\ t[j].cs = v

(* C26, as the specification has it: past a variable whose solution yields *)
(* or fails the pass goes on only if a variable was solved in this pass;   *)
(* otherwise the query ends, with success if successful_symres is set,     *)
(* else with Failed, and with Error when cycle_detected is set.            *)
C26_GoesOnOnlyIfSolved ==
    [][\A q \in DOMAIN ast : (IsPolyQuery(ast, q) /\ IsQueryCheckOf(q)) =>
          \A i \in DOMAIN trace' : IsOpenVariable(trace', i) =>
              /\ GoesOnAfter(trace', i) => SolvedBefore(trace', i)
              /\ ~SolvedBefore(trace', i) =>
                     IF ast[q].successful_symres
                     THEN checked'.cs \in {Check_Success, Check_Complete}
                     ELSE IF cycle_detected THEN checked'.cs = Check_Error
                     ELSE checked'.cs = Check_Failed]_vars

(* C26, as the code has it: past a variable whose solution yields or fails *)
(* the pass goes on if a variable was solved in this pass or               *)
(* successful_symres is set, looks at every later variable and ends with   *)
(* Return_To_Symres (or Yield_Macro from a later variable); otherwise the  *)
(* query ends there with Failed, and an error is reported exactly when     *)
(* error_on_fail or cycle_detected is set; the status is Failed either way. *)
C26_GoesOnIfSolvedOrSymres ==
    [][\A q \in DOMAIN ast : (IsPolyQuery(ast, q) /\ IsQueryCheckOf(q)) =>
          \A i \in DOMAIN trace' : IsOpenVariable(trace', i) =>
              IF ast[q].successful_symres \/ SolvedBefore(trace', i)
              THEN /\ checked'.cs \in {Check_Return_To_Symres, Check_Yield_Macro}
                   /\ checked'.cs = Check_Return_To_Symres => RestExamined(trace', i, q)
              ELSE /\ ~GoesOnAfter(trace', i)
                   /\ checked'.cs = Check_Failed
                   /\ ReportedAfter(trace', i)
                          <=> (ast[q].error_on_fail \/ cycle_detected)]_vars

(* With successful_symres set and nothing solved yet, the pass went past   *)
(* the first variable, solved the second and returned Return_To_Symres.    *)
C26_Witness ==
    /\ JustChecked
    /\ scen = "polyquery"
    /\ checked.before.type = "Polymorph_Query"
    /\ checked.cs = Check_Return_To_Symres
    /\ ast[1].successful_symres
    /\ \E i \in DOMAIN trace :
          /\ IsOpenVariable(trace, i)
          /\ ~SolvedBefore(trace, i)
          /\ \E j \in (i + 1)..Len(trace) : trace[j].ev = "solved"

(* The query ended with Failed at its first variable while cycle_detected  *)
(* was set, and the error was reported.                                    *)
C26_WitnessCycle ==
    /\ JustChecked
    /\ scen = "polyquery"
    /\ checked.before.type = "Polymorph_Query"
    /\ checked.cs = Check_Failed
    /\ cycle_detected
    /\ ~ast[1].error_on_fail
    /\ \E i \in DOMAIN trace : IsOpenVariable(trace, i) /\ ReportedAfter(trace, i)

(***************************************************************************)
(* C27: a static if                                                        *)
(***************************************************************************)
(* The step is a check of the entity of the static if n.                   *)
IsStaticIfCheckOf(n) ==
    /\ ast[n].kind = "Static_If"
    /\ checked' # NoCheck
    /\ checked'.before.type = "Static_If"
    /\ checked'.before.node = n

(* The condition of n is compile-time known and of type bool.              *)
CondIsKnownBool(a, n) ==
    /\ "Comptime" \in a[a[n].cond].flags
    /\ type_is_bool(a[a[n].cond].type)

(* The branch of n that its condition selects.                             *)
SelectedEntities(a, n) ==
    IF a[a[n].cond].value = 1 THEN a[n].true_entities ELSE a[n].false_entities

(* C27: check_static_if returns Complete only for a condition that is      *)
(* compile-time known and of type bool; that check sets Static_If_Resolved *)
(* and inserts into the entity heap the entities of the selected branch,   *)
(* each once and in order, and nothing else; a check that yields inserts   *)
(* nothing and sets no flag.                                               *)
C27_StaticIfInsertsSelectedBranch ==
    [][\A n \in DOMAIN ast : IsStaticIfCheckOf(n) =>
          /\ checked'.cs = Check_Complete
                => /\ CondIsKnownBool(ast', n)
                   /\ "Static_If_Resolved" \in ast'[n].flags
                   /\ entity_heap' = entity_heap \o SelectedEntities(ast', n)
          /\ checked'.cs # Check_Complete
                => /\ entity_heap' = entity_heap
                   /\ ast'[n].flags = ast[n].flags
                   /\ "Static_If_Resolved" \notin ast'[n].flags]_vars

(* A static if with a false condition is complete; its two false entities  *)
(* are in the heap and its flag is set.                                    *)
C27_Witness ==
    /\ JustChecked
    /\ scen = "static_if"
    /\ checked.before.type = "Static_If"
    /\ checked.cs = Check_Complete
    /\ ast[ast[1].cond].value = 0
    /\ ast[1].false_entities = <<2, 3>>
    /\ entity_heap = <<1, 2, 3>>
    /\ "Static_If_Resolved" \in ast[1].flags

(* The condition of a static if yielded; nothing was inserted.             *)
C27_WitnessYield ==
    /\ JustChecked
    /\ scen = "static_if"
    /\ checked.before.type = "Static_If"
    /\ checked.cs = Check_Yield_Macro
    /\ entity_heap = <<1>>

(***************************************************************************)
(* C28: the header of a function with constraints                          *)
(***************************************************************************)
IsConstrainedHeader(n) == ast[n].kind = "Function" /\ ast[n].has_constraints

(* The step is a check of the header entity of function f.                 *)
IsHeaderCheckOf(f) ==
    /\ checked' # NoCheck
    /\ checked'.before.type = "Function_Header"
    /\ checked'.before.node = f

(* The calls that check_function_header itself made in this step.          *)
IsHeaderCall(e) == e.ev = "ret" /\ e.d = 2
IsConstraintStep(e) == IsHeaderCall(e) /\ e.p = "check_constraint_context"
HeaderCalls == SelectSeq(trace', IsHeaderCall)
ConstraintSteps == SelectSeq(trace', IsConstraintStep)

(* C28, as the specification has it: the header returns Return_To_Symres   *)
(* on the check that first finds all constraints satisfied, and on no      *)
(* other check.                                                            *)
C28_ReturnToSymresOnce ==
    [][\A f \in DOMAIN ast : (IsConstrainedHeader(f) /\ IsHeaderCheckOf(f)) =>
          (checked'.cs = Check_Return_To_Symres
              <=> (~ast[f].constraints_met /\ ast'[f].constraints_met))]_vars

(* C28, as the code has it: while constraints_met is not set, a check of   *)
(* the header calls check_constraint_context and nothing else, leaves the  *)
(* function type as it was, and returns the status of that call if it     *)
(* yields or fails; the check in which that call succeeds sets constraints_met    *)
(* and returns Return_To_Symres, and it is the only one that returns it    *)
(* from the constraint step; once constraints_met is set it stays set and  *)
(* every check skips the constraint step and starts at the parameters,     *)
(* whose type checks may return Return_To_Symres again.                    *)
C28_ConstraintsBeforeType ==
    [][\A f \in DOMAIN ast : IsConstrainedHeader(f) =>
          /\ ast[f].constraints_met => ast'[f].constraints_met
          /\ (IsHeaderCheckOf(f) /\ ~ast[f].constraints_met)
                => /\ ast'[f].type = ast[f].type
                   /\ Len(HeaderCalls) = 1
                   /\ Len(ConstraintSteps) = 1
                   /\ IF ConstraintSteps[1].cs = Check_Success
                      THEN /\ checked'.cs = Check_Return_To_Symres
                           /\ ast'[f].constraints_met
                      ELSE /\ checked'.cs = ConstraintSteps[1].cs
                           /\ checked'.cs \in {Check_Yield_Macro, Check_Failed, Check_Error}
                           /\ ~ast'[f].constraints_met
          /\ (IsHeaderCheckOf(f) /\ ast[f].constraints_met)
                => /\ Len(ConstraintSteps) = 0
                   /\ ast[f].params # <<>>
                         => /\ Len(HeaderCalls) > 0
                            /\ HeaderCalls[1].p = "check_type"
                            /\ HeaderCalls[1].n = ast[ast[f].params[1]].type_node
                   /\ checked'.cs = Check_Return_To_Symres
                         => /\ Len(HeaderCalls) > 0
                            /\ HeaderCalls[Len(HeaderCalls)].p = "check_type"
                            /\ HeaderCalls[Len(HeaderCalls)].cs = Check_Return_To_Symres]_vars

(* The header of a function with a met constraint and a parameter has its  *)
(* function type; the check that built it made no constraint step.         *)
C28_Witness ==
    /\ JustChecked
    /\ scen = "header"
    /\ checked.before.type = "Function_Header"
    /\ checked.cs = Check_Success
    /\ ast[1].constraints_met
    /\ ast[1].params # <<>>
    /\ ast[1].type # NULLT
    /\ \A i \in DOMAIN trace : trace[i].ev = "ret" => trace[i].p # "check_constraint_context"

(* The check that found the constraint satisfied returned                  *)
(* Return_To_Symres.                                                       *)
C28_WitnessReturn ==
    /\ JustChecked
    /\ scen = "header"
    /\ checked.before.type = "Function_Header"
    /\ checked.cs = Check_Return_To_Symres
    /\ \E i \in DOMAIN trace :
          /\ trace[i].ev = "ret"
          /\ trace[i].p = "check_constraint_context"
          /\ trace[i].cs = Check_Success

(***************************************************************************)
(* C29: #remove and inside_for_iterator                                    *)
(***************************************************************************)
(* The innermost for-loop whose body holds node n, NoNode if there is none. *)
RECURSIVE InnermostFor(_, _)
InnermostFor(a, n) ==
    IF \E f \in DOMAIN a : a[f].kind = "For" /\ a[f].stmt = n
    THEN CHOOSE f \in DOMAIN a : a[f].kind = "For" /\ a[f].stmt = n
    ELSE IF \E b \in DOMAIN a : a[b].kind = "Block" /\ \E i \in DOMAIN a[b].body : a[b].body[i] = n
    THEN InnermostFor(a, CHOOSE b \in DOMAIN a :
                             a[b].kind = "Block" /\ \E i \in DOMAIN a[b].body : a[b].body[i] = n)
    ELSE NoNode

IsIterator(t) == Len(t) = 3 /\ t[1] = "Struct" /\ t[2] = "Iterator"

IteratesOverIterator(a, f) == f # NoNode /\ IsIterator(a[a[f].iter].type)

IsRemoveRet(t, i) == t[i].ev = "ret" /\ t[i].p = "check_remove_directive"
IsForBody(t, i) == t[i].ev = "body" /\ t[i].p = "check_for"
IsForAfter(t, i) == t[i].ev = "after" /\ t[i].p = "check_for"

(* inside_for_iterator when the body check of the loop of event i began:   *)
(* the value the enclosing body had, or the one before the check.          *)
ValueBefore(t, i) ==
    LET f == InnermostFor(ast', t[i].n)
    IN IF f = NoNode THEN IF inside_for_iterator THEN 1 ELSE 0
       ELSE IF IteratesOverIterator(ast', f) THEN 1 ELSE 0

(* C29: #remove returns Success exactly when the innermost for-loop around *)
(* it iterates over an Iterator, and Error otherwise; the body of a loop   *)
(* is checked with inside_for_iterator 1 for a loop over an Iterator and 0 *)
(* for any other loop; every body check, whatever it returns, is followed  *)
(* by the restore of the value from before the loop, and the check of an   *)
(* entity leaves inside_for_iterator as it found it.                       *)
C29_RemoveOnlyInIteratorLoop ==
    [][checked' # NoCheck =>
          /\ inside_for_iterator' = inside_for_iterator
          /\ \A i \in DOMAIN trace' :
                /\ IsRemoveRet(trace', i)
                      => trace'[i].cs =
                            IF IteratesOverIterator(ast', InnermostFor(ast', trace'[i].n))
                            THEN Check_Success ELSE Check_Error
                /\ IsForBody(trace', i)
                      => /\ trace'[i].cs =
                               IF IteratesOverIterator(ast', trace'[i].n) THEN 1 ELSE 0
                         /\ \E j \in (i + 1)..Len(trace') :
                               /\ IsForAfter(trace', j)
                               /\ trace'[j].n = trace'[i].n
                               /\ trace'[j].cs = ValueBefore(trace', i)]_vars

(* In an array loop inside an iterator loop: the #remove after the inner   *)
(* loop was accepted.                                                      *)
C29_Witness ==
    /\ JustChecked
    /\ scen = "remove"
    /\ IsIterator(ast[4].type)
    /\ TKind(ast[8].type) = "Array"
    /\ \E i \in DOMAIN trace :
          IsRemoveRet(trace, i) /\ trace[i].n = 11 /\ trace[i].cs = Check_Success

(* In an iterator loop inside a slice loop: the #remove of the inner body  *)
(* was accepted and the one after the inner loop was not.                  *)
C29_WitnessRejected ==
    /\ JustChecked
    /\ scen = "remove"
    /\ TKind(ast[4].type) = "Slice"
    /\ \E i, j \in DOMAIN trace :
          /\ IsRemoveRet(trace, i) /\ trace[i].n = 13 /\ trace[i].cs = Check_Success
          /\ IsRemoveRet(trace, j) /\ trace[j].n = 11 /\ trace[j].cs = Check_Error

(* The body of the inner iterator loop yielded, and inside_for_iterator    *)
(* was restored.                                                           *)
C29_WitnessYield ==
    /\ JustChecked
    /\ scen = "remove"
    /\ checked.cs = Check_Yield_Macro
    /\ ~inside_for_iterator
    /\ \E i \in DOMAIN trace : IsForBody(trace, i) /\ trace[i].n = 7 /\ trace[i].cs = 1

(***************************************************************************)
(* C30: assignments and the checking level                                 *)
(***************************************************************************)
(* The procedure that made the call whose event is the i-th: the next      *)
(* return one level up.                                                    *)
LaterReturnsAbove(t, i) ==
    { j \in (i + 1)..Len(t) : t[j].ev = "ret" /\ t[j].d = t[i].d - 1 }
CallerOf(t, i) ==
    IF LaterReturnsAbove(t, i) = {} THEN "none"
    ELSE t[CHOOSE j \in LaterReturnsAbove(t, i) : \A k \in LaterReturnsAbove(t, i) : j <= k].p

(* The i-th event is the return of check_binaryop for an assignment.       *)
IsAssignmentRet(t, i) ==
    /\ t[i].ev = "ret"
    /\ t[i].p = "check_binaryop"
    /\ t[i].n \in DOMAIN ast
    /\ binop_is_assignment(ast[t[i].n].operation)

(* The i-th event is the level test of check_binaryop_assignment.          *)
IsLevelTest(t, i) == t[i].ev = "assign"

(* What check_binaryop_assignment returned for the level test of event i.  *)
AssignmentResults(t, i) ==
    { j \in (i + 1)..Len(t) : /\ t[j].ev = "ret"
                              /\ t[j].p = "check_binaryop_assignment"
                              /\ t[j].d = t[i].d + 1
                              /\ t[j].n = t[i].n }
AssignmentResult(t, i) ==
    t[CHOOSE j \in AssignmentResults(t, i) : \A k \in AssignmentResults(t, i) : j <= k].cs

(* The store that the restore of event j belongs to.                       *)
StoresBefore(t, j) ==
    { i \in 1..(j - 1) : /\ t[i].ev = "store" /\ t[i].p = t[j].p
                         /\ t[i].n = t[j].n /\ t[i].d = t[j].d }
StoreOf(t, j) == CHOOSE i \in StoresBefore(t, j) : \A k \in StoresBefore(t, j) : k <= i

(* C30, as the specification has it: an assignment is accepted only when   *)
(* the checking level is Statement, so that no assignment reached through  *)
(* check_expression returns Success.                                       *)
C30_AssignmentInExpressionIsError ==
    [][checked' # NoCheck =>
          \A i \in DOMAIN trace' :
              (IsAssignmentRet(trace', i) /\ CallerOf(trace', i) = "check_expression")
                  => trace'[i].cs # Check_Success]_vars

(* C30, as the code has it: the level is tested after the operands have    *)
(* been checked and no overload has taken the operator.  A test reached    *)
(* directly from check_statement sees Statement and passes; a test reached *)
(* through check_expression sees Expression and the assignment returns     *)
(* Error; an assignment under check_expression returns Success only as the *)
(* call of an overload, without a level test; and after a binop or a call  *)
(* has checked its operands or arguments the level is the one it stored on *)
(* entry.                                                                  *)
C30_LevelTestedAfterOperands ==
    [][checked' # NoCheck =>
          \A i \in DOMAIN trace' :
              /\ IsLevelTest(trace', i)
                    => /\ AssignmentResults(trace', i) # {}
                       /\ CallerOf(trace', i) \in {"check_statement", "check_expression"}
                       /\ CallerOf(trace', i) = "check_statement"
                             => trace'[i].cs = STATEMENT_LEVEL
                       /\ CallerOf(trace', i) = "check_expression"
                             => /\ trace'[i].cs = EXPRESSION_LEVEL
                                /\ AssignmentResult(trace', i) = Check_Error
              /\ (/\ IsAssignmentRet(trace', i)
                  /\ CallerOf(trace', i) = "check_expression"
                  /\ trace'[i].cs = Check_Success)
                    => /\ \A j \in 1..i : ~(IsLevelTest(trace', j) /\ trace'[j].n = trace'[i].n)
                       /\ \E j \in 1..i : /\ trace'[j].ev = "ret"
                                          /\ trace'[j].p = "check_call"
                                          /\ trace'[j].d = trace'[i].d + 1
                                          /\ trace'[j].cs = Check_Success
              /\ trace'[i].ev = "level"
                    => /\ StoresBefore(trace', i) # {}
                       /\ trace'[i].cs = trace'[StoreOf(trace', i)].cs]_vars

(* The statement x = 1 has passed the level test at Statement and the      *)
(* assignment is accepted.                                                 *)
C30_Witness ==
    /\ JustChecked
    /\ scen = "assign"
    /\ checked.cs = Check_Success
    /\ \E i \in DOMAIN trace :
          /\ trace[i].ev = "assign"
          /\ trace[i].n = 3
          /\ trace[i].cs = STATEMENT_LEVEL
          /\ \E j \in (i + 1)..Len(trace) :
                /\ trace[j].ev = "ret"
                /\ trace[j].p = "check_binaryop_assignment"
                /\ trace[j].cs = Check_Success

(* The argument y = 1 of a call was tested at Expression and is an error.  *)
C30_WitnessArgument ==
    /\ JustChecked
    /\ scen = "assign"
    /\ checked.cs = Check_Error
    /\ ast[3].kind = "Call"
    /\ \E i \in DOMAIN trace :
          trace[i].ev = "assign" /\ trace[i].n = 5 /\ trace[i].cs = EXPRESSION_LEVEL

(* A call has checked its argument, and the level is Statement again.      *)
C30_WitnessRestored ==
    /\ JustChecked
    /\ scen = "assign"
    /\ \E i \in DOMAIN trace :
          /\ trace[i].ev = "level"
          /\ trace[i].p = "check_call"
          /\ trace[i].n = 3
          /\ trace[i].cs = STATEMENT_LEVEL

(***************************************************************************)
(* C31: return of the address of a literal                                 *)
(***************************************************************************)
(* The i-th event is the return of check_return for a return statement     *)
(* whose expression, after the check, is the address of an addressable     *)
(* literal.                                                                *)
IsReturnOfLiteralAddress(a, t, i) ==
    /\ t[i].ev = "ret"
    /\ t[i].p = "check_return"
    /\ t[i].n \in DOMAIN a
    /\ a[t[i].n].kind = "Return"
    /\ a[t[i].n].expr # NoNode
    /\ a[a[t[i].n].expr].kind = "Address_Of"
    /\ a[a[a[t[i].n].expr].expr].kind \in {"Struct_Literal", "Array_Literal"}

(* C31: check_return never accepts a return whose expression is the        *)
(* address of an addressable literal, whatever the expected return type    *)
(* is, the auto-return placeholder included.                               *)
C31_ReturnOfLiteralAddressRejected ==
    [][checked' # NoCheck =>
          \A i \in DOMAIN trace' :
              IsReturnOfLiteralAddress(ast', trace', i) => trace'[i].cs # Check_Success]_vars

(* With a declared return type the return of the address of a literal is   *)
(* an Error.                                                               *)
C31_DeclaredTypeRejects ==
    [][checked' # NoCheck =>
          \A i \in DOMAIN trace' :
              (/\ IsReturnOfLiteralAddress(ast', trace', i)
               /\ \A j \in 1..i : trace'[j].ev # "rtype")
                  => trace'[i].cs \in {Check_Error, Check_Yield_Macro}]_vars

(* A return of the address of an array literal was rejected although its   *)
(* type is the declared return type.                                       *)
C31_Witness ==
    /\ JustChecked
    /\ scen = "return_literal"
    /\ checked.cs = Check_Error
    /\ ast[1].type[2] = T_Pointer(T_Array(T_i32, 1))
    /\ ast[5].kind = "Array_Literal"
    /\ ast[4].type = T_Pointer(T_Array(T_i32, 1))

(***************************************************************************)
(* C32: the body of a switch                                               *)
(***************************************************************************)
StatementsOf(a, b) == { a[b].body[i] : i \in DOMAIN a[b].body }

(* The statements of block b and of the blocks nested in it.               *)
RECURSIVE StatementsIn(_, _)
StatementsIn(a, b) ==
    StatementsOf(a, b)
        \cup UNION { StatementsIn(a, x) : x \in { y \in StatementsOf(a, b) : a[y].kind = "Block" } }

IsDefaultCase(a, x) == a[x].kind = "Switch_Case" /\ a[x].is_default

DefaultsIn(a, b) == { x \in StatementsIn(a, b) : IsDefaultCase(a, x) }
TopLevelDefaults(a, b) == { x \in StatementsOf(a, b) : IsDefaultCase(a, x) }
NotAllowedIn(a, b) == { x \in StatementsOf(a, b) : a[x].kind \notin {"Switch_Case", "Block"} }
CaseBlocksIn(a, b) == { a[x].block : x \in { y \in StatementsIn(a, b) : a[y].kind = "Switch_Case" } }

(* The i-th event is the return of check_switch from a check that has      *)
(* checked the case block and walked it for its cases.                     *)
IsSwitchCollected(a, t, i) ==
    /\ t[i].ev = "ret"
    /\ t[i].p = "check_switch"
    /\ t[i].n \in DOMAIN a
    /\ a[t[i].n].kind = "Switch"
    /\ \E j \in 1..i : /\ t[j].ev = "ret"
                       /\ t[j].p = "check_block"
                       /\ t[j].n = a[t[i].n].case_block
                       /\ t[j].d = t[i].d + 1
                       /\ t[j].cs = Check_Success

(* A block of a case was checked before the i-th event.                    *)
CaseProcessed(a, t, i) ==
    \E j \in 1..i : /\ t[j].ev = "ret"
                    /\ t[j].p = "check_block"
                    /\ t[j].n \in CaseBlocksIn(a, a[t[i].n].case_block)

(* C32: check_switch returns Error, and processes no case, when the switch *)
(* body holds more than one default case, the cases inside nested blocks   *)
(* counted, and when it holds a statement that is neither a case nor a     *)
(* block.                                                                  *)
C32_BadSwitchBodyIsError ==
    [][checked' # NoCheck =>
          \A i \in DOMAIN trace' :
              (/\ IsSwitchCollected(ast', trace', i)
               /\ \/ Cardinality(DefaultsIn(ast', ast'[trace'[i].n].case_block)) > 1
                  \/ NotAllowedIn(ast', ast'[trace'[i].n].case_block) # {})
                  => /\ trace'[i].cs = Check_Error
                     /\ ~CaseProcessed(ast', trace', i)]_vars

(* What holds for the statements of the switch body itself: two default    *)
(* cases or a statement that is neither a case nor a block make            *)
(* check_switch return Error before any case is processed.                 *)
C32_BadTopLevelIsError ==
    [][checked' # NoCheck =>
          \A i \in DOMAIN trace' :
              (/\ IsSwitchCollected(ast', trace', i)
               /\ \/ Cardinality(TopLevelDefaults(ast', ast'[trace'[i].n].case_block)) > 1
                  \/ NotAllowedIn(ast', ast'[trace'[i].n].case_block) # {})
                  => /\ trace'[i].cs = Check_Error
                     /\ ~CaseProcessed(ast', trace', i)]_vars

(* A switch with two default cases in its body was rejected.               *)
C32_Witness ==
    /\ JustChecked
    /\ scen = "switch_body"
    /\ checked.cs = Check_Error
    /\ Cardinality(TopLevelDefaults(ast, 5)) = 2
    /\ \E i \in DOMAIN trace : IsSwitchCollected(ast, trace, i) /\ ~CaseProcessed(ast, trace, i)

(***************************************************************************)
(* C33: the order of the parameters of a function                          *)
(***************************************************************************)
IsVariadic(a, l) == a[l].vararg_kind # "Not_VA"
HasDefault(a, l) == a[l].default_value # NoNode

(* A parameter of f stands after a variadic parameter of f.                *)
ParamFollowsVariadic(a, f) ==
    \E i, j \in DOMAIN a[f].params :
        i < j /\ IsVariadic(a, a[f].params[i])

(* Two parameters of f are variadic.                                       *)
TwoVariadics(a, f) ==
    \E i, j \in DOMAIN a[f].params :
        i < j /\ IsVariadic(a, a[f].params[i]) /\ IsVariadic(a, a[f].params[j])

(* A parameter of f without a default value stands after one with a        *)
(* default value.                                                          *)
MissingDefault(a, f) ==
    \E i, j \in DOMAIN a[f].params :
        i < j /\ HasDefault(a, a[f].params[i]) /\ ~HasDefault(a, a[f].params[j])

(* C33: a check of the header of a function in which a parameter follows   *)
(* the variadic parameter never succeeds.                                  *)
C33_ParamAfterVariadicIsError ==
    [][\A f \in DOMAIN ast :
          (scen = "params" /\ IsHeaderCheckOf(f) /\ ParamFollowsVariadic(ast, f))
              => checked'.cs # Check_Success]_vars

(* The two orders that the code does reject: a check of the header of a    *)
(* function with two variadic parameters, or with a parameter without a    *)
(* default value after a default-valued one, yields or returns Error, and  *)
(* never succeeds.                                                         *)
C33_RejectedOrders ==
    [][\A f \in DOMAIN ast :
          (scen = "params" /\ IsHeaderCheckOf(f)
              /\ (TwoVariadics(ast, f) \/ MissingDefault(ast, f)))
              => checked'.cs \in {Check_Error, Check_Yield_Macro}]_vars

(* A header with two variadic parameters has been rejected.                *)
C33_Witness ==
    /\ JustChecked
    /\ scen = "params"
    /\ checked.before.type = "Function_Header"
    /\ TwoVariadics(ast, checked.before.node)
    /\ checked.cs = Check_Error

(* A header with a plain parameter after a default-valued one has been     *)
(* rejected.                                                               *)
C33_WitnessDefault ==
    /\ JustChecked
    /\ scen = "params"
    /\ checked.before.type = "Function_Header"
    /\ MissingDefault(ast, checked.before.node)
    /\ ~ParamFollowsVariadic(ast, checked.before.node)
    /\ checked.cs = Check_Error

(***************************************************************************)
(* C34: the status of a struct and the access to its members               *)
(***************************************************************************)
(* The status of struct type t in the state with the syntax tree a.        *)
StatusOf(a, t) == struct_status([ast |-> a, env |-> env], t)

IsStructNode(s) == ast[s].kind = "Struct_Type" /\ ast[s].sps # "extern"

(* The step is a check of the entity of struct s.                          *)
IsStructCheckOf(s) ==
    /\ checked' # NoCheck
    /\ checked'.before.type = "Type_Alias"
    /\ checked'.before.node = s

UsedMembers(a, s) == { a[s].memarr[i] : i \in { j \in DOMAIN a[s].memarr : a[s].memarr[j].used } }

(* The expression that access n reads its member from: the access that     *)
(* goes through a used pointer member gets a new access in between.        *)
BaseOf(n) ==
    IF ast'[n].expr \in DOMAIN ast THEN ast'[n].expr ELSE ast'[ast'[n].expr].expr

IsUncheckedAccess(n) ==
    /\ n \in DOMAIN ast
    /\ ast[n].kind = "Field_Access"
    /\ "Has_Been_Checked" \notin ast[n].flags

(* The step resolves access n.                                             *)
ResolvedNow(n) == IsUncheckedAccess(n) /\ "Has_Been_Checked" \in ast'[n].flags

IsStructTyped(n) == ast'[n].type # NULLT /\ TKind(ast'[n].type) = "Struct"

(* The i-th event is the return of check_field_access from an access whose *)
(* expression has a struct type that is not Uses_Done.                     *)
IsEarlyAccess(i) ==
    /\ trace'[i].ev = "ret"
    /\ trace'[i].p = "check_field_access"
    /\ IsUncheckedAccess(trace'[i].n)
    /\ IsStructTyped(ast[trace'[i].n].expr)
    /\ StatusOf(ast, ast'[ast[trace'[i].n].expr].type) # "Uses_Done"

(* C34: an access to a member of an expression of a struct type is         *)
(* resolved only in a step that starts with the struct at Uses_Done, and   *)
(* yields when the struct is not (once a cycle has been detected the yield *)
(* is reported and returned as Error); the status of a struct changes only *)
(* in a check of the struct that returns Success, in which every used      *)
(* member                                                                  *)
(* of the built type is of a struct that is Uses_Done, and it changes to   *)
(* Uses_Done and stays there; a check of the struct that yields, or that   *)
(* returns anything but Success, leaves the status as it was.              *)
C34_UsesDoneBeforeAccess ==
    [][/\ \A n \in DOMAIN ast :
            (ResolvedNow(n) /\ IsStructTyped(BaseOf(n)))
                => StatusOf(ast, ast'[BaseOf(n)].type) = "Uses_Done"
       /\ \A i \in DOMAIN trace' :
            (checked' # NoCheck /\ IsEarlyAccess(i))
                => /\ trace'[i].cs = IF cycle_detected THEN Check_Error
                                      ELSE Check_Yield_Macro
                   /\ "Has_Been_Checked" \notin ast'[trace'[i].n].flags
       /\ \A s \in DOMAIN ast : IsStructNode(s) =>
            /\ (ast[s].sps = "Uses_Done") => (ast'[s].sps = "Uses_Done")
            /\ (ast'[s].sps # ast[s].sps)
                  => /\ IsStructCheckOf(s)
                     /\ checked'.cs = Check_Success
                     /\ ast'[s].sps = "Uses_Done"
                     /\ type_build_from_ast([ast |-> ast, env |-> env], s) # NULLT
                     /\ \A m \in UsedMembers(ast, s) :
                            StatusOf(ast, m.type) = "Uses_Done"
            /\ (IsStructCheckOf(s) /\ checked'.cs # Check_Success)
                  => ast'[s].sps = ast[s].sps]_vars

(* The access s.u has been resolved, S being Uses_Done by a check that     *)
(* applied the use of its member p.                                        *)
C34_Witness ==
    /\ JustChecked
    /\ scen = "struct"
    /\ checked.before.type = "Expression"
    /\ checked.cs = Check_Success
    /\ ast[3].field = "u"
    /\ "Has_Been_Checked" \in ast[3].flags
    /\ ast[7].type = T_Struct("S")
    /\ ast[1].sps = "Uses_Done"
    /\ ast[2].sps = "Uses_Done"

(* The access has yielded: S is not yet Uses_Done.                         *)
C34_WitnessYield ==
    /\ JustChecked
    /\ scen = "struct"
    /\ checked.before.type = "Expression"
    /\ checked.cs = Check_Yield_Macro
    /\ ast[7].type = T_Struct("S")
    /\ ast[1].sps = "Start"

(* The check of S has yielded with its type built: the use of p waits for  *)
(* V.                                                                      *)
C34_WitnessUseWaits ==
    /\ JustChecked
    /\ scen = "struct"
    /\ checked.before.type = "Type_Alias"
    /\ checked.before.node = 1
    /\ checked.cs = Check_Yield_Macro
    /\ 1 \in env.built
    /\ ast[2].sps = "Start"
    /\ ast[1].sps = "Start"

(***************************************************************************)
(* C35: the constraints of a context become entities once                  *)
(***************************************************************************)
ConstraintEntities(es, k) ==
    { e \in DOMAIN es : es[e].type = "Constraint_Check" /\ es[e].node = k }

ConstraintsOf(f) == { ast[f].constraints[i] : i \in DOMAIN ast[f].constraints }

HasChecks(a, f) == a[f].constraint_checks # <<"none">>

(* check_constraint_context has returned cs for the context of f in this   *)
(* step.                                                                   *)
ContextReturned(f, cs) ==
    \E i \in DOMAIN trace' : /\ trace'[i].ev = "ret"
                             /\ trace'[i].p = "check_constraint_context"
                             /\ trace'[i].n = f
                             /\ trace'[i].cs = cs

(* C35: the step in which the context of f gets its statuses is an entry   *)
(* to check_constraint_context that returns Yield_Macro, sets every status *)
(* to Queued and gives every constraint, which had no entity before, one   *)
(* entity; no other step adds an entity for a constraint, and once the     *)
(* statuses exist no step sets a status that is not Queued to Queued.      *)
C35_ConstraintsQueuedOnce ==
    [][\A f \in DOMAIN ast : (ast[f].has_constraints /\ ast[f].constraints # <<>>) =>
          /\ HasChecks(ast, f) =>
                /\ HasChecks(ast', f)
                /\ DOMAIN ast'[f].constraint_checks = DOMAIN ast[f].constraint_checks
                /\ \A i \in DOMAIN ast[f].constraint_checks :
                      (ast'[f].constraint_checks[i] = "Queued")
                          => (ast[f].constraint_checks[i] = "Queued")
                /\ \A k \in ConstraintsOf(f) :
                      ConstraintEntities(ents', k) = ConstraintEntities(ents, k)
          /\ (~HasChecks(ast, f) /\ HasChecks(ast', f)) =>
                /\ checked' # NoCheck
                /\ ContextReturned(f, Check_Yield_Macro)
                /\ DOMAIN ast'[f].constraint_checks = DOMAIN ast[f].constraints
                /\ \A i \in DOMAIN ast'[f].constraint_checks :
                      ast'[f].constraint_checks[i] = "Queued"
                /\ \A k \in ConstraintsOf(f) :
                      /\ ConstraintEntities(ents, k) = {}
                      /\ Cardinality(ConstraintEntities(ents', k)) = 1
          /\ (~HasChecks(ast, f) /\ ~HasChecks(ast', f)) =>
                \A k \in ConstraintsOf(f) : ConstraintEntities(ents', k) = {}]_vars

(* A later entry to the context of f: every status has been decided, the   *)
(* entry has returned Success, and each constraint still has one entity.   *)
C35_Witness ==
    /\ JustChecked
    /\ \E f \in DOMAIN ast :
          /\ ast[f].has_constraints
          /\ Len(ast[f].constraints) = 2
          /\ HasChecks(ast, f)
          /\ ast[f].constraints_met
          /\ \A i \in DOMAIN ast[f].constraint_checks :
                ast[f].constraint_checks[i] = "Success"
          /\ \E i \in DOMAIN trace : /\ trace[i].ev = "ret"
                                     /\ trace[i].p = "check_constraint_context"
                                     /\ trace[i].n = f
                                     /\ trace[i].cs = Check_Success
          /\ \A k \in ConstraintsOf(f) : Cardinality(ConstraintEntities(ents, k)) = 1

(* The first entry: the statuses are all Queued and the entry has yielded. *)
C35_WitnessFirst ==
    /\ JustChecked
    /\ checked.cs = Check_Yield_Macro
    /\ \E f \in DOMAIN ast :
          /\ ast[f].has_constraints
          /\ Len(ast[f].constraints) = 2
          /\ HasChecks(ast, f)
          /\ \A i \in DOMAIN ast[f].constraint_checks :
                ast[f].constraint_checks[i] = "Queued"
          /\ \A k \in ConstraintsOf(f) : Cardinality(ConstraintEntities(ents, k)) = 1
          /\ Len(trace) > 0

(***************************************************************************)
(* C36: the Call_Site arguments of a call                                  *)
(***************************************************************************)
IsCall(a, n) == a[n].kind \in {"Call", "Intrinsic_Call"}

(* The clones made for the Call_Site arguments of call n.                  *)
ClonesOf(a, n) == { k \in DOMAIN a : a[k].kind = "Call_Site" /\ a[k].callsite_of = n }

(* The entities of the filename literals of those clones.                  *)
FilenameEntitiesOf(a, es, n) ==
    { e \in DOMAIN es : /\ es[e].type = "String_Literal"
                        /\ \E k \in ClonesOf(a, n) : a[k].filename = es[e].node }

CallSiteArguments(a, n) ==
    { i \in DOMAIN a[n].values : is_call_site_argument([ast |-> a], a[n].values[i]) }

(* C36: a call has at most one clone and one filename entity for each of   *)
(* its Call_Site arguments, however often it is checked.                   *)
C36_OneClonePerCallSite ==
    \A n \in DOMAIN ast : IsCall(ast, n) =>
        /\ Cardinality(ClonesOf(ast, n)) <= Cardinality(CallSiteArguments(ast, n))
        /\ Cardinality(FilenameEntitiesOf(ast, ents, n))
               <= Cardinality(CallSiteArguments(ast, n))

(* What the code does: one check of the call makes at most one clone, with *)
(* one filename entity, for each Call_Site argument, and a call that has   *)
(* Has_Been_Checked gets no further clone.                                 *)
C36_OneClonePerEntry ==
    [][\A n \in DOMAIN ast : IsCall(ast, n) =>
          /\ Cardinality(ClonesOf(ast', n))
                 <= Cardinality(ClonesOf(ast, n)) + Cardinality(CallSiteArguments(ast, n))
          /\ Cardinality(FilenameEntitiesOf(ast', ents', n))
                 = Cardinality(ClonesOf(ast', n))
          /\ ("Has_Been_Checked" \in ast[n].flags)
                 => (ClonesOf(ast', n) = ClonesOf(ast, n))]_vars

(* The call has yielded late, waiting for the argument types, with its     *)
(* Call_Site argument cloned once.                                         *)
C36_Witness ==
    /\ JustChecked
    /\ scen = "callsite"
    /\ checked.e = 1
    /\ checked.cs = Check_Yield_Macro
    /\ Cardinality(ClonesOf(ast, 1)) = 1
    /\ Cardinality(FilenameEntitiesOf(ast, ents, 1)) = 1

(***************************************************************************)
(* C37: the callee of a call that is checked again                         *)
(***************************************************************************)
(* The i-th event is the return of check_call from a call that had no      *)
(* Has_Been_Checked when the step began.                                   *)
IsUncheckedCallEntry(i) ==
    /\ trace'[i].ev = "ret"
    /\ trace'[i].p = "check_call"
    /\ trace'[i].n \in DOMAIN ast
    /\ IsCall(ast, trace'[i].n)
    /\ "Has_Been_Checked" \notin ast[trace'[i].n].flags

(* C37: a call without Has_Been_Checked that check_call is entered for,    *)
(* no error having been reported before, has a callee.                     *)
C37_CalleeOnEntry ==
    [][\A i \in DOMAIN trace' :
          (checked' # NoCheck /\ errs = 0 /\ IsUncheckedCallEntry(i))
              => ast[trace'[i].n].callee # NoNode]_vars

(* What the code does keep: only the step that makes a call of an          *)
(* intrinsic procedure an Intrinsic_Call clears the callee, and a call     *)
(* that is left with Has_Been_Checked is not changed by a later check.     *)
C37_CalleeClearedByIntrinsic ==
    [][\A n \in DOMAIN ast : (IsCall(ast, n) /\ ast[n].callee # NoNode) =>
          /\ (ast'[n].callee = NoNode)
                => /\ ast[n].kind = "Call"
                   /\ ast'[n].kind = "Intrinsic_Call"
                   /\ ast[ast[n].callee].is_intrinsic
          /\ ("Has_Been_Checked" \in ast[n].flags) => (ast'[n] = ast[n])]_vars

(* An intrinsic call has yielded on its arguments: it has no callee and no *)
(* Has_Been_Checked, and its entity waits for the next check.              *)
C37_Witness ==
    /\ JustChecked
    /\ scen = "intrinsic"
    /\ checked.cs = Check_Yield_Macro
    /\ ast[1].kind = "Intrinsic_Call"
    /\ ast[1].callee = NoNode
    /\ "Has_Been_Checked" \notin ast[1].flags
    /\ ents[1].state = Entity_State_Check_Types

(***************************************************************************)
(* C38: the scaling of pointer arithmetic                                  *)
(***************************************************************************)
IsPointerMath(a, b) ==
    /\ a[b].kind = "Binary_Op"
    /\ a[b].operation \in {"Add", "Minus"}
    /\ a[b].left # NoNode
    /\ type_is_pointer(a[a[b].left].type)

(* check_binaryop has returned for b this many times in this step.         *)
ChecksOf(b) ==
    Cardinality({ i \in DOMAIN trace' : /\ trace'[i].ev = "ret"
                                        /\ trace'[i].p = "check_binaryop"
                                        /\ trace'[i].n = b })

IsDoBlockRet(i, n) ==
    /\ ast[n].kind = "Do_Block"
    /\ IsRet(i)
    /\ trace[i].p = "check_do_block"
    /\ trace[i].n = n

(* C39: check_do_block leaves expected_return_type as it found it.         *)
C39_DoBlockRestores ==
    \A n \in DOMAIN ast : \A i \in Events :
        JustChecked /\ IsDoBlockRet(i, n) =>
            ast[n].expected_at_exit = ast[n].expected_at_entry

(* What the code does: expected_return_type is as it was at the entry when *)
(* check_do_block returns Success, and is the do-block itself when the     *)
(* check of the body has made it return anything else.                     *)
C39_RestoredOnSuccess ==
    \A n \in DOMAIN ast : \A i \in Events :
        JustChecked /\ IsDoBlockRet(i, n) =>
            ast[n].expected_at_exit = IF trace[i].cs = Check_Success
                                      THEN ast[n].expected_at_entry
                                      ELSE n

(* A do-block whose body has yielded.                                      *)
C39_Witness ==
    /\ JustChecked
    /\ scen = "do_block"
    /\ checked.cs = Check_Yield_Macro
    /\ \E n \in DOMAIN ast : \E i \in Events :
          /\ IsDoBlockRet(i, n)
          /\ trace[i].cs = Check_Yield_Macro
          /\ ast[n].expected_at_entry = 1
          /\ ast[n].expected_at_exit = n

(* A do-block that has been checked with success.                          *)
C39_WitnessSuccess ==
    /\ JustChecked
    /\ scen = "do_block"
    /\ checked.cs = Check_Success
    /\ \E n \in DOMAIN ast : \E i \in Events :
          /\ IsDoBlockRet(i, n)
          /\ trace[i].cs = Check_Success
          /\ ast[n].expected_at_exit = 1
          /\ ast[n].type = T_i32

(***************************************************************************)
(* C40: the allow-matrix of the binary operators                           *)
(***************************************************************************)
BinaryOps ==
    AllowedOps \cup {"Assign_Start", "Assign", "Assign_Add", "Assign_Minus",
                     "Assign_Multiply", "Assign_Divide", "Assign_Modulus", "Assign_And",
                     "Assign_Or", "Assign_Xor", "Assign_Shl", "Assign_Shr", "Assign_Sar",
                     "Assign_End", "Pipe", "Range"}

(* The classes that admit an operator.                                     *)
MatrixRow(op) ==
    IF op \in {"Add", "Minus"} THEN {"Numeric", "Pointer"}
    ELSE IF op \in {"Multiply", "Divide"} THEN {"Numeric"}
    ELSE IF op \in {"Modulus", "And", "Or", "Xor", "Shl", "Shr", "Sar"} THEN {"Integer"}
    ELSE IF op \in {"Equal", "Not_Equal"} THEN {"Equality"}
    ELSE IF op \in {"Less", "Less_Equal", "Greater", "Greater_Equal"} THEN {"Ordered"}
    ELSE IF op \in {"Bool_And", "Bool_Or"} THEN {"Boolean"}
    ELSE {}

(* The classes a type counts as.                                           *)
ClassesOf(t) ==
    IF TKind(t) = "Basic" THEN BasicFlags(t)
    ELSE IF TKind(t) = "Pointer" THEN {"Pointer"}
    ELSE IF TKind(t) = "Enum" THEN {"Integer"}
    ELSE IF TKind(t) = "Function" THEN {"Equality"}
    ELSE {}

MatrixAllows(op, t) == \E class \in MatrixRow(op) : class \in ClassesOf(t)

(* The binary operation of two operands of one type that has just been     *)
(* checked, and is neither && nor ||, which do not ask the matrix.         *)
IsMatrixCheck ==
    /\ JustChecked
    /\ scen = "allowed"
    /\ checked.e = 1
    /\ ast[1].kind = "Binary_Op"
    /\ ast[1].operation \notin {"Bool_And", "Bool_Or"}

(* C40: an operator is accepted for a type exactly when a class of its row *)
(* of the matrix is a class of the type, for every operator and every type *)
(* of a node of the program; and the check of  a <op> b  succeeds exactly  *)
(* when the matrix allows <op> for the type of a.                          *)
C40_AllowedAsMatrix ==
    /\ \A n \in DOMAIN ast : \A op \in BinaryOps :
          binary_op_is_allowed(op, ast[n].type) <=> MatrixAllows(op, ast[n].type)
    /\ IsMatrixCheck =>
          /\ checked.cs \in {Check_Success, Check_Error}
          /\ (checked.cs = Check_Success) <=> MatrixAllows(ast[1].operation, ast[2].type)

(* e == e  for an enum e is refused: an enum counts as Integer only.       *)
C40_Witness ==
    /\ IsMatrixCheck
    /\ ast[1].operation = "Equal"
    /\ TKind(ast[2].type) = "Enum"
    /\ checked.cs = Check_Error

(* f != g  for two procedures is accepted.                                 *)
C40_WitnessFunction ==
    /\ IsMatrixCheck
    /\ ast[1].operation = "Not_Equal"
    /\ TKind(ast[2].type) = "Function"
    /\ checked.cs = Check_Success

(* a << b  for two integers is accepted, and refused for two floats.       *)
C40_WitnessShift ==
    /\ IsMatrixCheck
    /\ ast[1].operation = "Shl"
    /\ ast[2].type = T_i32
    /\ checked.cs = Check_Success

=============================================================================
